---- MODULE Spec2Model ----
(***************************************************************************)
(* Verification model of the resume analyzer's LLM orchestration core:     *)
(* the Ollama gateway (ollamaService.ts), the extraction orchestrator      *)
(* (aiAnalysisService) and the pure helpers they use.                      *)
(*                                                                         *)
(* Every `await` of the TypeScript source is a suspension point: the code  *)
(* between two awaits of one async call runs atomically (single-threaded   *)
(* event loop) and is one action here.                                     *)
(***************************************************************************)
EXTENDS Integers, Sequences, FiniteSets, TLC

VARIABLES
    isConnected,        \* OllamaService.isConnected
    availableModels,    \* OllamaService.availableModels (only membership is read)
    task,               \* one record per asynchronous gateway call in progress
    decoder,            \* the decoder specification: a reply and what it decodes to
    seniority,          \* the determineSeniority call in progress
    orch,               \* the analyzeResume call in progress
    runtime,            \* the analysis specification: the Ollama runtime it talks to
    qgen,               \* the question generator call in progress
    norm,               \* a normalizer applied on its own
    road,               \* the generateRoadmap call in progress
    ctl,                \* the question routes: the request being handled
    store,              \* the upload directory and the file-service call in progress
    seen                \* the catalog specification: the last answer to GET /api/tags

vars == <<isConnected, availableModels, task, decoder, seniority, orch, runtime, qgen,
          norm, road, ctl, store, seen>>

\* the variables of the specifications that stand apart from the gateway and analysis
otherVars == <<qgen, norm, road, ctl, store, seen>>

exceptQgen == <<isConnected, availableModels, task, decoder, seniority, orch, runtime, norm, road, ctl, store, seen>>

exceptNorm == <<isConnected, availableModels, task, decoder, seniority, orch, runtime, qgen, road, ctl, store, seen>>

exceptRoad == <<isConnected, availableModels, task, decoder, seniority, orch, runtime, qgen, norm, ctl, store, seen>>

exceptCtl == <<isConnected, availableModels, task, decoder, seniority, orch, runtime, qgen, norm,
               road, store, seen>>

exceptStore == <<isConnected, availableModels, task, decoder, seniority, orch, runtime, qgen,
                 norm, road, ctl, seen>>

exceptGateway == <<decoder, seniority, orch, runtime, qgen, norm, road, ctl, store>>

gatewayVars == <<isConnected, availableModels, task>>

analysisVars == <<orch, runtime>>

----------------------------------------------------------------------------
(* Bounds and input sets *)

\* default arguments of generateWithRetry (lines 212-213)
DefaultMaxRetries == 3

DefaultRetryDelay == 1000

\* largest maxRetries argument the callers of the gateway specification pass
MaxRetriesBound == 2

\* first retry delays (ms) the callers pass
InitialDelays == {10, DefaultRetryDelay}

\* model names known to the runtime and to the callers
Models == {"llama2", "mistral"}

\* A reply text is a sequence of tokens (its syntax, see the decoder) together with a
\* name for what it says.  The empty string has no tokens.
Text(tokens, content) == [tokens |-> tokens, content |-> content]

NoText == Text(<<>>, "")

\* texts the runtime answers a generation request of the gateway specification with
Texts == {Text(<<"v">>, "reply-a"), Text(<<"t", "{", "}">>, "reply-b")}

\* longest reply (in tokens) the decoder specification decodes
MaxReplyLen == 5

\* longest experience list the seniority specification draws
MaxEntries == 2

\* most extraction branches whose reply is not the well-formed one
MaxFaults == 1

\* longest reply to a structured call in the structured-call specification
MaxStructuredLen == 3

\* longest container of skills, and longest list of gaps, resources or steps, given
\* to a normalizer
MaxSkills == 3

MaxItems == 2

\* validation.ts: Joi.number().integer().min(1).max(50)
MinQuestionCount == 1

MaxQuestionCount == 50

\* questionController: const { count = 10 } = req.body
DefaultQuestionCount == 10

\* largest question count asked for, and longest question list the model answers with
MaxCount == 6

MaxQuestions == 2

\* concurrent callers of the gateway specification
Callers == {"c1", "c2"}

\* the arguments each caller passes: the first caller explores the retry loop, the
\* second makes single-attempt calls that interleave with it on the shared cache
CallerRetries(t) == IF t = "c1" THEN 0..MaxRetriesBound ELSE {1}

CallerDelays(t) == IF t = "c1" THEN InitialDelays ELSE {DefaultRetryDelay}

\* the five extraction calls of analyzeResume, launched together
Branches == {"personalInfo", "skills", "experience", "education", "projects"}

\* the calls of one analyzeResume: the extractions, then determineSeniority's and
\* generateCareerSummary's
AnalysisTasks == Branches \cup {"seniority", "summary"}

----------------------------------------------------------------------------
(* Errors.  An error is the message of the thrown Error object, kept as a  *)
(* record: the fixed text, the model name and the wrapped cause.           *)

NoError == [text |-> "", model |-> "", cause |-> ""]

\* what is thrown inside generate's try block (before the catch maps it)
Thrown(axios, code, status, message, model) ==
    [axios |-> axios, code |-> code, status |-> status, message |-> message, model |-> model]

NotAvailableMsg == "Ollama service is not available"
NotPulledMsg == "Model is not available and could not be pulled"
NoResponseMsg == "No response received from Ollama"

\* generate's catch block: the error generate rejects with
MapError(e, model) ==
    IF e.axios /\ e.code = "ECONNREFUSED"
    THEN [text |-> "Ollama service is not running. Please start Ollama and try again.",
          model |-> "", cause |-> ""]
    ELSE IF e.axios /\ e.status = 404
    THEN [text |-> "Model not found. Please pull the model first.", model |-> model, cause |-> ""]
    ELSE IF e.axios /\ e.status = 500
    THEN [text |-> "Ollama internal server error. Please check the model and try again.",
          model |-> "", cause |-> ""]
    ELSE [text |-> "AI generation failed", model |-> e.model, cause |-> e.message]

----------------------------------------------------------------------------
(* Replies of the runtime *)

\* GET /api/tags: rejected, answered 200, or answered with another 2xx status
TagsReplies == [status : {"fail", "ok", "non200"}, models : SUBSET Models]

\* POST /api/pull
PullReplies == {"ok", "non200", "fail"}

\* POST /api/generate: a text, an empty body, or a rejection
GenReplies ==
    [kind : {"text"}, text : Texts]
    \cup [kind : {"empty", "ECONNREFUSED", "404", "500", "other"}, text : {NoText}]

\* the rejection of POST /api/generate as the thrown axios error
GenRejection(reply, model) ==
    CASE reply.kind = "ECONNREFUSED" -> Thrown(TRUE, "ECONNREFUSED", 0, "connect ECONNREFUSED", "")
      [] reply.kind = "404" -> Thrown(TRUE, "ERR_BAD_REQUEST", 404, "Request failed with status code 404", "")
      [] reply.kind = "500" -> Thrown(TRUE, "ERR_BAD_RESPONSE", 500, "Request failed with status code 500", "")
      [] OTHER -> Thrown(TRUE, "ECONNABORTED", 0, "timeout exceeded", "")

----------------------------------------------------------------------------
(* The structured-response decoder (generateStructuredResponse, lines 252-266) *)

\* JSON as a token sequence: the braces and brackets, "k" a member key with its colon,
\* "v" a scalar, "t" words that are not JSON.  Containers hold at most one member.
Tokens == {"{", "}", "[", "]", "k", "v", "t"}

RECURSIVE IsValue(_)
\* JSON.parse accepts exactly the texts that are one JSON value
IsValue(s) ==
    \/ s = <<"v">>
    \/ s = <<"{", "}">>
    \/ s = <<"[", "]">>
    \/ /\ Len(s) >= 4 /\ s[1] = "{" /\ s[2] = "k" /\ s[Len(s)] = "}"
       /\ IsValue(SubSeq(s, 3, Len(s) - 1))
    \/ /\ Len(s) >= 3 /\ s[1] = "[" /\ s[Len(s)] = "]"
       /\ IsValue(SubSeq(s, 2, Len(s) - 1))

Positions(s, tok) == {i \in DOMAIN s : s[i] = tok}

Min(S) == CHOOSE x \in S : \A y \in S : x <= y

Max(S) == CHOOSE x \in S : \A y \in S : x >= y

\* line 260: response.match(/\{[\s\S]*\}/) is greedy: from the first opening brace to
\* the last closing brace after it; <<>> when there is no match
RegexMatch(s) ==
    LET opens == Positions(s, "{")
        closes == IF opens = {} THEN {} ELSE {j \in Positions(s, "}") : j > Min(opens)}
    IN  IF closes = {} THEN <<>> ELSE SubSeq(s, Min(opens), Max(closes))

SyntaxError == [text |-> "SyntaxError: Unexpected token in JSON", model |-> "", cause |-> ""]

NotJsonError == [text |-> "Response is not valid JSON", model |-> "", cause |-> ""]

\* lines 252-266: the value generateStructuredResponse resolves with, or the error it
\* rejects with
Decode(text) ==
    IF IsValue(text.tokens)
    THEN [status |-> "ok", text |-> text, error |-> NoError]
    ELSE LET m == RegexMatch(text.tokens)
         IN  IF m = <<>>
             THEN [status |-> "error", text |-> NoText, error |-> NotJsonError]
             ELSE IF IsValue(m)
             THEN [status |-> "ok", text |-> Text(m, text.content), error |-> NoError]
             ELSE [status |-> "error", text |-> NoText, error |-> SyntaxError]

----------------------------------------------------------------------------
(* Per-call state *)

NoOutcome == [status |-> "none", text |-> NoText, error |-> NoError]

Failure(error) == [status |-> "error", text |-> NoText, error |-> error]

IdleTask ==
    [pc |-> "idle",          \* idle | tags | pull | pullTags | gen | backoff | done
     kind |-> "retry",       \* retry: generateWithRetry; plain: generate;
                             \* structured: generateStructuredResponse
     model |-> "",
     maxRetries |-> 0,
     retryDelay |-> 0,
     attempt |-> 0,          \* loop variable of generateWithRetry
     lastError |-> NoError,
     outcome |-> NoOutcome,
     \* history of the call, read by the properties only
     genCalls |-> 0,         \* generate invocations of this call
     sends |-> <<>>,         \* HTTP requests of the current generate invocation
     entryConnected |-> FALSE, \* isConnected when the current generate was entered
     check |-> "none",       \* checkConnection of the current generate: none | ok | failed
     pull |-> "none",        \* pullModel of the current generate: none | ok | failed
     absentAtGen |-> FALSE,  \* the model was not in availableModels when POST /api/generate was sent
     callError |-> NoError,  \* what the most recent generate invocation rejected with
     okAt |-> 0,             \* attempt number of the first generate that resolved
     okText |-> NoText,      \* and its text
     waits |-> <<>>]         \* delays waited between attempts

IdleDecoder == [pc |-> "idle", reply |-> NoText, result |-> NoOutcome]

\* SkillSet with its five containers empty (aiAnalysisService, lines 139-145, 423-429)
EmptySkillSet ==
    [technical |-> <<>>, soft |-> <<>>, languages |-> <<>>, frameworks |-> <<>>, tools |-> <<>>]

\* A slice of the analysis: the JSON shape of the value, what names its content, and,
\* where the code looks into the value, the experience entries or the skill set
Value(shape, payload, experience, skills) ==
    [shape |-> shape, payload |-> payload, experience |-> experience, skills |-> skills]

NoValue == Value("none", "", <<>>, EmptySkillSet)

\* a promise of Promise.all: pending, fulfilled with a value, or rejected
Pending == [state |-> "pending", value |-> NoValue]

\* the runtime outside the analysis specification
NoRuntime ==
    [up |-> TRUE, installed |-> {}, pull |-> "ok",
     gen |-> [b \in Branches |-> [kind |-> "unset", text |-> NoText]]]

IdleOrch ==
    [pc |-> "idle",          \* idle | extracting | seniority | summary | done
     west |-> FALSE,         \* the server's time zone is west of Greenwich
     slots |-> [b \in Branches |-> Pending],   \* the array Promise.all resolves with
     settled |-> <<>>,       \* the branches in the order they settled
     entryConnected |-> FALSE,   \* isConnected when analyzeResume was called
     seniorityLevel |-> "",
     careerSummary |-> "",
     totalExperienceYears |-> 0,
     outcome |-> "none",     \* none | returned | threw
     error |-> ""]

\* an identifier: one the model wrote, or the k-th one uuidv4() made
ModelId(name) == [src |-> "model", name |-> name, n |-> 0]

Uuid(k) == [src |-> "uuid", name |-> "", n |-> k]

IdleQgen ==
    [pc |-> "idle",          \* idle | categories | general | behavioral | generalBehavioral | done
     entry |-> "",           \* technical | behavioral
     count |-> 0,
     difficulty |-> "",
     categories |-> <<>>,    \* the categories of the skills, in the order they were met
     pending |-> {},         \* the categories whose call has not returned
     byCategory |-> <<>>,    \* the questions of each category, in the order of categories
     uuids |-> 0,            \* identifiers made by uuidv4() so far
     calls |-> 0,            \* model calls made
     mainFailed |-> FALSE,   \* the behavioral call proper failed
     lastFailed |-> FALSE,   \* the last model call made failed
     produced |-> 0,         \* valid questions the path taken had to choose from
     result |-> <<>>,
     outcome |-> "none"]     \* none | returned | threw

\* the stand-alone specifications at rest
\* a normalizer applied on its own: what it was given and what it returned
IdleNorm == [pc |-> "idle", kind |-> "", input |-> <<>>, type |-> "", difficulty |-> "",
             output |-> <<>>]

\* a roadmap request
IdleRoad ==
    [pc |-> "idle",          \* idle | targetRole | skillGaps | resources | steps | done
     level |-> "",           \* analysis.seniorityLevel
     issued |-> <<>>,        \* the stages whose model call was issued, in order
     inFlight |-> {},        \* the stages whose model call has not settled
     failed |-> {},          \* the stages whose model call failed
     targetRole |-> "", skillGaps |-> <<>>, learningResources |-> <<>>,
     recommendedPath |-> <<>>, timelineEstimate |-> "", overallPriority |-> "",
     uuids |-> 0, outcome |-> "none",
     skillsOk |-> TRUE,      \* analysis.skills has its five containers
     replies |-> <<>>]       \* what each model call issued settled with

\* a request to the question routes
IdleCtl ==
    [pc |-> "idle",          \* idle | calling | done
     route |-> "", technicalCount |-> 0, behavioralCount |-> 0, difficulty |-> "",
     status |-> 0,           \* the HTTP status answered, 0 before the answer
     modelCalls |-> 0]       \* model calls the generator issued for the request

\* no file stored, no call in progress
IdleStore ==
    [files |-> {},           \* the names in the upload directory
     made |-> {},            \* the identifiers uuidv4() has made so far
     pc |-> "idle",          \* idle | write | readdir | unlink | done
     op |-> "",              \* upload | get | delete
     id |-> <<>>,            \* the fileId made (upload) or passed (get, delete)
     found |-> <<>>,         \* the name getFilePath matched
     before |-> {},          \* the directory when the call was made
     result |-> "none"]      \* what the call returned

\* no answer to GET /api/tags received yet
NoneSeen == [by |-> "none", status |-> "fail", models |-> {}]

IdleOthers ==
    /\ qgen = IdleQgen /\ norm = IdleNorm /\ road = IdleRoad /\ ctl = IdleCtl
    /\ store = IdleStore /\ seen = NoneSeen

IdleSeniority ==
    [pc |-> "idle", experience |-> <<>>, west |-> FALSE, totalYears |-> 0,
     leadership |-> "false", path |-> "none", result |-> ""]

Init ==
    /\ isConnected = FALSE
    /\ availableModels = {}
    /\ task = [t \in Callers |-> IdleTask]
    /\ decoder = IdleDecoder
    /\ seniority = IdleSeniority
    /\ orch = IdleOrch
    /\ IdleOthers
    /\ runtime = NoRuntime

----------------------------------------------------------------------------
(* OllamaService.generate, split at its awaits.  Each operator maps the record of a   *)
(* call to its record after the step.                                                 *)

\* line 158: the connection is checked only while the flag is false
NeedsCheck_Mutant(connected) == FALSE

NeedsCheck(connected) == ~connected

\* line 166: a model that is not in the cached catalog is pulled first
NeedsPull_Mutant(models, model) == FALSE

\* line 166 with the pull shared: no second pull of a model while one is in flight
NeedsPull_Shared(models, model) ==
    /\ model \notin models
    /\ ~\E u \in DOMAIN task : task[u].pc = "pull" /\ task[u].model = model

NeedsPull(models, model) == model \notin models

\* lines 165-177 run after the connection is known to be up:
\* POST /api/pull for an absent model, POST /api/generate otherwise
AfterConnected(r, models) ==
    IF NeedsPull(models, r.model)
    THEN [r EXCEPT !.pc = "pull", !.sends = Append(@, "pull")]
    ELSE [r EXCEPT !.pc = "gen", !.sends = Append(@, "gen"),
                   !.absentAtGen = (r.model \notin models)]

\* lines 155-177 up to the first await
GenerateEntry(r, connected, models) ==
    LET e == [r EXCEPT !.genCalls = @ + 1, !.sends = <<>>, !.entryConnected = connected,
                       !.check = "none", !.pull = "none", !.absentAtGen = FALSE,
                       !.callError = NoError]
    IN  IF NeedsCheck(connected)
        THEN [e EXCEPT !.pc = "tags", !.sends = Append(@, "tags")]
        ELSE AfterConnected(e, models)

\* line 217: the loop condition of generateWithRetry
LoopContinues_Mutant(attempt, maxRetries) == attempt < maxRetries

LoopContinues(attempt, maxRetries) == attempt <= maxRetries

\* line 223: a failed attempt is followed by a wait unless it was the last one
ShouldWait(attempt, maxRetries) == attempt < maxRetries

\* line 226 with the delay left as it is
NextDelay_Mutant(d) == d

\* line 226
NextDelay(d) == d * 2

\* line 221: the error kept for the final throw
KeepError(last, error) == error

\* generate rejected: a plain call rejects with the mapped error (lines 191-207); under
\* generateWithRetry the catch of lines 220-228 runs, and after the last attempt the
\* throw of line 231 (which generateStructuredResponse rethrows, line 269)
GenerateFailed(r, thrown) ==
    LET error == MapError(thrown, r.model)
        f == [r EXCEPT !.callError = error]
        g == [f EXCEPT !.lastError = KeepError(@, error)]
    IN  IF r.kind = "plain"
        THEN [f EXCEPT !.pc = "done", !.outcome = Failure(error)]
        ELSE IF ShouldWait(g.attempt, g.maxRetries)
        THEN [g EXCEPT !.pc = "backoff", !.waits = Append(@, g.retryDelay),
                       !.retryDelay = NextDelay(@)]
        ELSE [g EXCEPT !.pc = "done", !.outcome = Failure(g.lastError)]

\* lines 217-219 and 231: the loop condition is tested with the attempt counter already
\* set; generate is called, or the loop is over and lastError is thrown (undefined when
\* the body never ran)
LoopStep(r, connected, models) ==
    IF LoopContinues(r.attempt, r.maxRetries)
    THEN GenerateEntry(r, connected, models)
    ELSE [r EXCEPT !.pc = "done", !.outcome = Failure(r.lastError)]

\* lines 250-269 with the decoding inside the retried block: a text that does not
\* decode counts as a failed attempt
GenerateResolved_Mutant(r, text) ==
    LET seen1 == [r EXCEPT !.okAt = IF @ = 0 THEN r.attempt ELSE @,
                           !.okText = IF r.okAt = 0 THEN text ELSE @]
    IN  IF r.kind = "structured" /\ Decode(text).status = "error"
        THEN GenerateFailed(seen1, Thrown(FALSE, "", 0, "Response is not valid JSON", ""))
        ELSE [seen1 EXCEPT !.pc = "done",
                           !.outcome = IF r.kind = "structured"
                                       THEN Decode(text)
                                       ELSE [status |-> "ok", text |-> text, error |-> NoError]]

\* generate resolved with `text` (line 187): generate and generateWithRetry (line 219)
\* return it, generateStructuredResponse decodes it (lines 250-266)
GenerateResolved(r, text) ==
    [r EXCEPT !.pc = "done",
              !.okAt = IF @ = 0 THEN r.attempt ELSE @,
              !.okText = IF r.okAt = 0 THEN text ELSE @,
              !.outcome = IF r.kind = "structured"
                          THEN Decode(text)
                          ELSE [status |-> "ok", text |-> text, error |-> NoError]]

\* the record of a call when it is made, up to its first await
StartCall(kind, model, maxRetries, delay, connected, models) ==
    LET r == [IdleTask EXCEPT !.kind = kind, !.model = model, !.maxRetries = maxRetries,
                              !.retryDelay = delay, !.attempt = 1]
    IN  IF kind = "plain"
        THEN GenerateEntry(r, connected, models)
        ELSE LoopStep(r, connected, models)

\* generateStructuredResponse(prompt, model), lines 240-250
StartStructured(model, connected, models) ==
    StartCall("structured", model, DefaultMaxRetries, DefaultRetryDelay, connected, models)

\* checkConnection's GET /api/tags completes (lines 102-118), and generate goes on
TagsStep(r, reply) ==
    IF reply.status = "ok"
    THEN AfterConnected([r EXCEPT !.check = "ok"], reply.models)
    ELSE GenerateFailed([r EXCEPT !.check = "failed"],
                        Thrown(FALSE, "", 0, NotAvailableMsg, ""))

\* line 127 with the lists joined instead of replaced
PullTagsModels_Mutant(reply, models) ==
    IF reply.status = "fail" THEN models ELSE models \cup reply.models

\* line 106 with the list emptied by a failed check
TagsModels_Mutant(reply, models) == IF reply.status = "ok" THEN reply.models ELSE {}

\* lines 103 and 115: the flag after checkConnection
TagsConnected(reply) == reply.status = "ok"

\* line 106: the catalog after checkConnection
TagsModels(reply, models) == IF reply.status = "ok" THEN reply.models ELSE models

\* pullModel's POST /api/pull completes (lines 137-151)
PullStep(r, reply) ==
    IF reply = "ok"
    THEN [r EXCEPT !.pc = "pullTags", !.sends = Append(@, "tags")]
    ELSE GenerateFailed([r EXCEPT !.pull = "failed"],
                        Thrown(FALSE, "", 0, NotPulledMsg, r.model))

\* getAvailableModels inside pullModel completes (lines 123-129, 144-151)
PullTagsStep(r, reply) ==
    IF reply.status = "fail"
    THEN GenerateFailed([r EXCEPT !.pull = "failed"],
                        Thrown(FALSE, "", 0, NotPulledMsg, r.model))
    ELSE [r EXCEPT !.pc = "gen", !.sends = Append(@, "gen"), !.pull = "ok",
                   !.absentAtGen = (r.model \notin reply.models)]

\* line 125: the catalog after getAvailableModels (any 2xx answer is taken)
PullTagsModels(reply, models) == IF reply.status = "fail" THEN models ELSE reply.models

\* POST /api/generate completes (lines 174-207)
GenStep(r, reply) ==
    CASE reply.kind = "text" -> GenerateResolved(r, reply.text)
      [] reply.kind = "empty" -> GenerateFailed(r, Thrown(FALSE, "", 0, NoResponseMsg, ""))
      [] OTHER -> GenerateFailed(r, GenRejection(reply, r.model))

\* lines 217-225 with the attempt counter left as it is
WakeStep_Mutant(r, connected, models) == LoopStep(r, connected, models)

\* the setTimeout of line 225 fires: the next attempt calls generate
WakeStep(r, connected, models) == LoopStep([r EXCEPT !.attempt = @ + 1], connected, models)

----------------------------------------------------------------------------
(* The gateway under concurrent callers of generateWithRetry *)

\* a caller invokes generateWithRetry(request, maxRetries, retryDelay)
Call(t, model, maxRetries, delay) ==
    /\ task[t].pc = "idle"
    /\ task' = [task EXCEPT ![t] =
            StartCall("retry", model, maxRetries, delay, isConnected, availableModels)]
    /\ UNCHANGED <<isConnected, availableModels>>

TagsReturn(t, reply) ==
    /\ task[t].pc = "tags"
    /\ isConnected' = TagsConnected(reply)
    /\ availableModels' = TagsModels(reply, availableModels)
    /\ task' = [task EXCEPT ![t] = TagsStep(@, reply)]

PullReturn(t, reply) ==
    /\ task[t].pc = "pull"
    /\ task' = [task EXCEPT ![t] = PullStep(@, reply)]
    /\ UNCHANGED <<isConnected, availableModels>>

PullTagsReturn(t, reply) ==
    /\ task[t].pc = "pullTags"
    /\ availableModels' = PullTagsModels(reply, availableModels)
    /\ task' = [task EXCEPT ![t] = PullTagsStep(@, reply)]
    /\ UNCHANGED isConnected

GenReturn(t, reply) ==
    /\ task[t].pc = "gen"
    /\ task' = [task EXCEPT ![t] = GenStep(@, reply)]
    /\ UNCHANGED <<isConnected, availableModels>>

Wake(t) ==
    /\ task[t].pc = "backoff"
    /\ task' = [task EXCEPT ![t] = WakeStep(@, isConnected, availableModels)]
    /\ UNCHANGED <<isConnected, availableModels>>

\* the caller has consumed the result and may call again
Release(t) ==
    /\ task[t].pc = "done"
    /\ task' = [task EXCEPT ![t] = IdleTask]
    /\ UNCHANGED <<isConnected, availableModels>>

Next ==
    /\ UNCHANGED <<decoder, seniority, analysisVars, otherVars>>
    /\ \E t \in Callers :
        \/ \E m \in Models, n \in CallerRetries(t), d \in CallerDelays(t) : Call(t, m, n, d)
        \/ \E reply \in TagsReplies : TagsReturn(t, reply)
        \/ \E reply \in PullReplies : PullReturn(t, reply)
        \/ \E reply \in TagsReplies : PullTagsReturn(t, reply)
        \/ \E reply \in GenReplies : GenReturn(t, reply)
        \/ Wake(t)
        \/ Release(t)

Spec == Init /\ [][Next]_vars

----------------------------------------------------------------------------
(* Properties of the gateway *)

Range(s) == {s[i] : i \in DOMAIN s}

NotAvailableError == [text |-> "AI generation failed", model |-> "", cause |-> NotAvailableMsg]

NotPulledError(model) == [text |-> "AI generation failed", model |-> model, cause |-> NotPulledMsg]

\* C1: generateWithRetry with maxRetries >= 1 calls generate at most maxRetries times; it
\* returns the text of the first attempt that succeeds and makes no attempt after it; if
\* it fails, it has made exactly maxRetries attempts and fails with the error of the last.
C1_RetryBudget ==
    \A t \in DOMAIN task :
        LET r == task[t]
        IN  (r.kind = "retry" /\ r.maxRetries >= 1) =>
                /\ r.genCalls <= r.maxRetries
                /\ r.okAt # 0 =>
                        /\ r.pc = "done"
                        /\ r.genCalls = r.okAt
                        /\ r.outcome = [status |-> "ok", text |-> r.okText, error |-> NoError]
                /\ r.outcome.status = "ok" => r.okAt # 0
                /\ r.outcome.status = "error" =>
                        /\ r.genCalls = r.maxRetries
                        /\ r.outcome.error = r.callError
                        /\ r.callError # NoError

\* C1 witness: one call has used up two attempts and failed, another has returned a text
C1_Witness ==
    /\ task["c1"].maxRetries = 2 /\ task["c1"].outcome.status = "error"
    /\ task["c1"].genCalls = 2
    /\ task["c2"].outcome.status = "ok"

\* C2: POST /api/generate is sent for a model that is not in the cached catalog only
\* after a pull of that model succeeded within the same generate call; when the pull
\* fails, generate fails with the model-unavailable error and sends no generation request.
C2_PullBeforeGenerate ==
    \A t \in DOMAIN task :
        LET r == task[t]
        IN  /\ ("gen" \in Range(r.sends) /\ (r.absentAtGen \/ "pull" \in Range(r.sends)))
                    => r.pull = "ok"
            /\ r.pull = "failed" =>
                    /\ "gen" \notin Range(r.sends)
                    /\ r.callError = NotPulledError(r.model)

\* C2 witness: a generation request in flight for a model the refreshed catalog still
\* lacks, sent after a successful pull
C2_Witness ==
    \E t \in DOMAIN task : task[t].pc = "gen" /\ task[t].absentAtGen /\ task[t].pull = "ok"

\* C3: a generate entered while isConnected is false first runs checkConnection; when
\* that check does not succeed, generate fails with the service-unavailable error and
\* sends neither a pull nor a generation request.
C3_CheckFirst ==
    \A t \in DOMAIN task :
        LET r == task[t]
        IN  (r.genCalls > 0 /\ ~r.entryConnected) =>
                /\ r.sends # <<>> /\ r.sends[1] = "tags"
                /\ (r.check # "none" \/ (r.pc = "tags" /\ r.sends = <<"tags">>))
                /\ r.check = "failed" =>
                        /\ r.sends = <<"tags">>
                        /\ r.callError = NotAvailableError
                        /\ r.pc \in {"backoff", "done"}

\* C3 witness: a generate entered while disconnected whose check failed
C3_Witness ==
    \E t \in DOMAIN task :
        /\ task[t].genCalls > 0 /\ ~task[t].entryConnected
        /\ task[t].check = "failed" /\ task[t].sends = <<"tags">>

----------------------------------------------------------------------------
(* The decoder on its own: generateStructuredResponse once generateWithRetry has     *)
(* resolved with a reply (lines 250-270)                                             *)

SeqsUpTo(S, n) == UNION {[1..k -> S] : k \in 1..n}

\* generate never resolves with an empty text (line 179)
InitDecode ==
    /\ isConnected = FALSE
    /\ availableModels = {}
    /\ task = [t \in {} |-> IdleTask]
    /\ decoder \in {[pc |-> "reply", reply |-> Text(s, "json"), result |-> NoOutcome] :
                        s \in SeqsUpTo(Tokens, MaxReplyLen)}
    /\ seniority = IdleSeniority
    /\ orch = IdleOrch
    /\ IdleOthers
    /\ runtime = NoRuntime

DecodeReply ==
    /\ decoder.pc = "reply"
    /\ decoder' = [decoder EXCEPT !.pc = "done", !.result = Decode(decoder.reply)]
    /\ UNCHANGED <<gatewayVars, seniority, analysisVars, otherVars>>

NextDecode == DecodeReply

SpecDecode == InitDecode /\ [][NextDecode]_vars

\* the objects of a text: the places i..j that hold one valid JSON object
ObjectSpans(s) ==
    {span \in (DOMAIN s) \X (DOMAIN s) :
        /\ span[1] < span[2] /\ s[span[1]] = "{"
        /\ IsValue(SubSeq(s, span[1], span[2]))}

\* the first of them
FirstObject(s) ==
    LET span == CHOOSE x \in ObjectSpans(s) : \A y \in ObjectSpans(s) : x[1] <= y[1]
    IN  SubSeq(s, span[1], span[2])

\* C10: a reply that does not parse directly and contains a balanced, valid JSON object
\* decodes to the first such object, whatever precedes or follows it.
C10_FirstBalancedObject ==
    (/\ decoder.pc = "done"
     /\ ~IsValue(decoder.reply.tokens)
     /\ ObjectSpans(decoder.reply.tokens) # {})
        => /\ decoder.result.status = "ok"
           /\ decoder.result.text.tokens = FirstObject(decoder.reply.tokens)

----------------------------------------------------------------------------
(* Experience entries and calculateTotalExperience (aiAnalysisService, lines 403-420) *)

\* A date string is "YYYY-MM": a record of its year and month.  NoDate is null or an
\* absent field, BadDate a string new Date(... + '-01') cannot parse.
Date(y, m) == [y |-> y, m |-> m]

NoDate == Date(0, 0)

BadDate == Date(-1, 0)

\* Today (the month new Date() falls in, local time)
Now == Date(2026, 11)

\* getFullYear() * 12 + getMonth() of new Date(d + '-01').  The string is parsed as
\* midnight UTC of the first of the month, and the getters are local time: west of
\* Greenwich that instant still belongs to the month before.
LocalMonth(d, west) == d.y * 12 + (d.m - 1) - (IF west THEN 1 ELSE 0)

\* new Date() read with the same getters
LocalMonthNow == Now.y * 12 + (Now.m - 1)

\* lines 409-415: the months one entry adds
EntryMonths(exp, west) ==
    LET endIndex == IF exp.endDate = NoDate THEN LocalMonthNow
                    ELSE LocalMonth(exp.endDate, west)
        months == endIndex - LocalMonth(exp.startDate, west)
    IN  IF exp.startDate \in {NoDate, BadDate} \/ exp.endDate = BadDate
        THEN 0
        ELSE IF months > 0 THEN months ELSE 0

RECURSIVE TotalMonths(_, _)
TotalMonths(experience, west) ==
    IF experience = <<>> THEN 0
    ELSE EntryMonths(Head(experience), west) + TotalMonths(Tail(experience), west)

\* line 419: Math.round(totalMonths / 12 * 10) / 10, kept in tenths of a year
\* (Math.round rounds halves up; the halves, months = 3 mod 6, are exact in binary)
RoundToTenths(totalMonths) == (totalMonths * 10 + 6) \div 12

calculateTotalExperience(experience, west) ==
    IF Len(experience) = 0 THEN 0 ELSE RoundToTenths(TotalMonths(experience, west))

----------------------------------------------------------------------------
(* determineSeniority (aiAnalysisService, lines 148-219) *)

SeniorityLevels == {"Entry", "Junior", "Mid", "Senior", "Lead", "Principal"}

\* a field the model's JSON left out
Undefined == "<undefined>"

\* the keywords (lower case) that occur in the texts the entries are drawn from
KeywordsIn(text) ==
    CASE text = "Tech Lead" -> {"lead"}
      [] text = "Senior Developer" -> {"senior"}
      [] text = "Engineering Manager" -> {"manager", "manage"}
      [] text = "Mentored junior developers" -> {"mentor"}
      [] text = "Led projects" -> {}
      [] OTHER -> {}

\* lines 156-159
PositionLeads(position) ==
    KeywordsIn(position) \cap {"lead", "senior", "principal", "manager"} # {}

\* lines 161-163
ResponsibilityLeads(resp) == KeywordsIn(resp) \cap {"lead", "manage", "mentor"} # {}

RECURSIVE hasLeadershipExperience(_)
\* lines 155-165: "true", "false", or "throw" when toLowerCase or some is called on an
\* absent field before an entry decided the scan
hasLeadershipExperience(experience) ==
    IF experience = <<>> THEN "false"
    ELSE LET exp == Head(experience)
         IN  IF exp.position = Undefined THEN "throw"
             ELSE IF PositionLeads(exp.position) THEN "true"
             ELSE IF ~exp.responsibilities.defined THEN "throw"
             ELSE IF \E i \in DOMAIN exp.responsibilities.items :
                        ResponsibilityLeads(exp.responsibilities.items[i]) THEN "true"
             ELSE hasLeadershipExperience(Tail(experience))

\* lines 174-179: building the prompt calls slice on every entry's responsibilities
PromptThrows(experience) ==
    \E i \in DOMAIN experience : ~experience[i].responsibilities.defined

\* line 195: response.trim() on the answers the model is drawn to give
Trim(answer) ==
    CASE answer = " Lead\n" -> "Lead"
      [] answer = " Seasoned engineer.\n" -> "Seasoned engineer."
      [] answer = " Explain REST. " -> "Explain REST."
      [] answer = "   " -> ""
      [] OTHER -> answer

\* a bug: the boundaries taken inclusively
ThresholdFallback_Mutant(totalYears, leadership) ==
    IF totalYears <= 10 THEN "Entry"
    ELSE IF totalYears <= 30 THEN "Junior"
    ELSE IF totalYears <= 50 THEN "Mid"
    ELSE IF totalYears <= 80 THEN "Senior"
    ELSE IF leadership THEN "Lead"
    ELSE "Senior"

\* lines 204-209, totalYears in tenths of a year
ThresholdFallback(totalYears, leadership) ==
    IF totalYears < 10 THEN "Entry"
    ELSE IF totalYears < 30 THEN "Junior"
    ELSE IF totalYears < 50 THEN "Mid"
    ELSE IF totalYears < 80 THEN "Senior"
    ELSE IF leadership THEN "Lead"
    ELSE "Senior"

\* lines 214-217: the catch block, totalYears in tenths of a year
FailureFallback(totalYears) ==
    IF totalYears < 20 THEN "Entry"
    ELSE IF totalYears < 50 THEN "Junior"
    ELSE "Mid"

\* lines 150-194, up to the await of ollamaService.generate: the call is made ("call"),
\* or the function is over: no experience ("empty"), or an exception on the way to the
\* call, which the catch block answers ("threw")
SeniorityEntry(experience, west) ==
    LET years == calculateTotalExperience(experience, west)
        lead == hasLeadershipExperience(experience)
    IN  IF Len(experience) = 0
        THEN [path |-> "empty", totalYears |-> 0, leadership |-> "false", result |-> "Entry"]
        ELSE IF lead = "throw" \/ PromptThrows(experience)
        THEN [path |-> "threw", totalYears |-> years, leadership |-> lead,
              result |-> FailureFallback(years)]
        ELSE [path |-> "call", totalYears |-> years, leadership |-> lead, result |-> ""]

\* lines 195-218: the call has resolved or rejected
SeniorityExit(state, outcome) ==
    IF outcome.status = "error"
    THEN [state EXCEPT !.path = "failed", !.result = FailureFallback(state.totalYears)]
    ELSE LET answer == Trim(outcome.text.content)
         IN  IF answer \in SeniorityLevels
             THEN [state EXCEPT !.path = "valid", !.result = answer]
             ELSE [state EXCEPT !.path = "invalid",
                                !.result = ThresholdFallback(state.totalYears,
                                                             state.leadership = "true")]

----------------------------------------------------------------------------
(* determineSeniority on its own, over drawn experience lists *)

\* start and end date of an entry: 6, 12, 24, 48 and 108 months back from today (one
\* range closed a year ago), and a start date that does not parse
DateRanges ==
    {<<Date(2026, 5), NoDate>>, <<Date(2024, 11), Date(2025, 11)>>,
     <<Date(2024, 11), NoDate>>, <<Date(2022, 11), NoDate>>,
     <<Date(2017, 11), NoDate>>, <<BadDate, NoDate>>}

Plain == [defined |-> TRUE, items |-> <<"Led projects">>]

Mentoring == [defined |-> TRUE, items |-> <<"Basic development", "Mentored junior developers">>]

Absent == [defined |-> FALSE, items |-> <<>>]

\* position and responsibilities of an entry
Roles ==
    {<<"Developer", Plain>>, <<"Developer", Mentoring>>, <<"Developer", Absent>>,
     <<"Tech Lead", Plain>>, <<"Tech Lead", Absent>>, <<Undefined, Plain>>}

Entries ==
    {[startDate |-> d[1], endDate |-> d[2], position |-> r[1], responsibilities |-> r[2]] :
        d \in DateRanges, r \in Roles}

\* what the model answers the seniority prompt with
SeniorityAnswers == {"Senior", "Principal", " Lead\n", "senior", "I would say Mid"}

SeniorityOutcomes ==
    {[status |-> "ok", text |-> Text(<<"t">>, a), error |-> NoError] : a \in SeniorityAnswers}
    \cup {Failure(MapError(GenRejection([kind |-> k], "llama2"), "llama2")) :
            k \in {"ECONNREFUSED", "500"}}

InitSeniority ==
    /\ isConnected = FALSE
    /\ availableModels = {}
    /\ task = [t \in {} |-> IdleTask]
    /\ decoder = IdleDecoder
    /\ \E experience \in {<<>>} \cup SeqsUpTo(Entries, MaxEntries), west \in BOOLEAN :
            seniority = [IdleSeniority EXCEPT !.experience = experience, !.west = west]
    /\ orch = IdleOrch
    /\ IdleOthers
    /\ runtime = NoRuntime

\* determineSeniority(experience) is called
Determine ==
    /\ seniority.pc = "idle"
    /\ LET e == SeniorityEntry(seniority.experience, seniority.west)
       IN  seniority' = [seniority EXCEPT
                !.pc = IF e.path = "call" THEN "awaiting" ELSE "done",
                !.path = e.path, !.totalYears = e.totalYears,
                !.leadership = e.leadership, !.result = e.result]
    /\ UNCHANGED <<gatewayVars, decoder, analysisVars, otherVars>>

\* ollamaService.generate resolves or rejects
Determined(outcome) ==
    /\ seniority.pc = "awaiting"
    /\ seniority' = [SeniorityExit(seniority, outcome) EXCEPT !.pc = "done"]
    /\ UNCHANGED <<gatewayVars, decoder, analysisVars, otherVars>>

NextSeniority ==
    \/ Determine
    \/ \E outcome \in SeniorityOutcomes : Determined(outcome)

SpecSeniority == InitSeniority /\ [][NextSeniority]_vars

\* the threshold table of the specification, in tenths of a year
TableLabel(totalYears, leadership) ==
    CASE totalYears < 10 -> "Entry"
      [] totalYears >= 10 /\ totalYears < 30 -> "Junior"
      [] totalYears >= 30 /\ totalYears < 50 -> "Mid"
      [] totalYears >= 50 /\ totalYears < 80 -> "Senior"
      [] totalYears >= 80 /\ leadership -> "Lead"
      [] OTHER -> "Senior"

\* C8: when the model call fails outright for a non-empty experience list,
\* determineSeniority returns the label of the threshold table (<1y Entry, <3y Junior,
\* <5y Mid, <8y Senior, >=8y Lead with the leadership signal, else Senior).
C8_FailureUsesThresholdTable ==
    (seniority.pc = "done" /\ seniority.path = "failed")
        => seniority.result = TableLabel(seniority.totalYears, seniority.leadership = "true")

\* C9: an answer that is not one of the six labels after trimming yields the label of
\* the threshold table for the computed years and leadership signal; and whatever
\* happens, the value returned is one of the six labels.
C9_InvalidAnswerUsesThresholdTable ==
    seniority.pc = "done" =>
        /\ seniority.result \in SeniorityLevels
        /\ seniority.path = "invalid" =>
                seniority.result = TableLabel(seniority.totalYears, seniority.leadership = "true")

\* C9 witness: an invalid answer at exactly eight years with the leadership signal
C9_Witness ==
    /\ seniority.pc = "done" /\ seniority.path = "invalid"
    /\ seniority.totalYears = 80 /\ seniority.leadership = "true"
    /\ seniority.result = "Lead"

----------------------------------------------------------------------------
(* The extraction wrappers of aiAnalysisService: what each makes of the outcome of    *)
(* its generateStructuredResponse call                                                *)

\* this.model (line 25)
AnalysisModel == "llama2"

\* the JSON shape of a decoded value
ShapeOf(tokens) ==
    IF tokens[1] = "{" THEN "object" ELSE IF tokens[1] = "[" THEN "array" ELSE "scalar"

\* a skill entry as the model wrote it; Undefined stands for a field that is absent or
\* of another type than the one looked for
RawSkill(name, category, level, years, description) ==
    [name |-> name, category |-> category, proficiencyLevel |-> level,
     yearsOfExperience |-> years, description |-> description]

\* a property of the decoded skill set: an array of entries or anything else
Arr(items) == [array |-> TRUE, items |-> items]

NotArr == [array |-> FALSE, items |-> <<>>]

\* the decoded skill sets the replies carry
RawSkillSets(payload) ==
    IF payload = "skills-a"
    THEN [technical |-> Arr(<<RawSkill("Docker", "DevOps", "Advanced", "3", Undefined),
                              RawSkill(Undefined, "Cloud", "Beginner", Undefined, Undefined),
                              RawSkill("", Undefined, "Expert", "three", Undefined)>>),
          soft |-> Arr(<<RawSkill("Communication", Undefined, Undefined, Undefined, "Clear writer")>>),
          languages |-> Arr(<<RawSkill("TypeScript", Undefined, Undefined, "5", Undefined)>>),
          frameworks |-> NotArr,
          tools |-> Arr(<<RawSkill("Git", "", "Intermediate", Undefined, Undefined)>>)]
    ELSE [technical |-> NotArr, soft |-> NotArr, languages |-> NotArr,
          frameworks |-> NotArr, tools |-> NotArr]

\* lines 434, 447, 459, 472, 484: skill && typeof skill.name === 'string'
KeepsSkill(skill) == skill.name # Undefined

ProficiencyLevels == {"Beginner", "Intermediate", "Advanced"}

\* typeof x === 'number' on the values the entries carry
IsNumber(x) == x \in {"3", "5"}

\* lines 435-442, 448-453, 460-467, 473-479, 485-488: the entry kept, by container
CleanSkill(container, skill) ==
    LET category == IF skill.category \in {Undefined, ""} THEN "General" ELSE skill.category
        level == IF skill.proficiencyLevel \in ProficiencyLevels
                 THEN skill.proficiencyLevel ELSE "Intermediate"
        years == IF IsNumber(skill.yearsOfExperience) THEN skill.yearsOfExperience ELSE Undefined
    IN  CASE container \in {"technical", "frameworks"} ->
                RawSkill(skill.name, category, level, years, Undefined)
          [] container = "languages" -> RawSkill(skill.name, Undefined, level, years, Undefined)
          [] container = "tools" -> RawSkill(skill.name, category, level, Undefined, Undefined)
          [] OTHER -> RawSkill(skill.name, Undefined, Undefined, Undefined, skill.description)

CleanContainer(container, raw) ==
    IF raw.array
    THEN LET kept == SelectSeq(raw.items, KeepsSkill)
         IN  [i \in DOMAIN kept |-> CleanSkill(container, kept[i])]
    ELSE <<>>

\* lines 422-492
validateAndCleanSkillSet(skillSet) ==
    [c \in DOMAIN skillSet |-> CleanContainer(c, skillSet[c])]

\* an experience entry as the model wrote it
Experience(id, position, startDate, endDate, responsibilities) ==
    [id |-> id, position |-> position, startDate |-> startDate, endDate |-> endDate,
     responsibilities |-> responsibilities]

\* the decoded experience lists the replies carry
ExperiencesOf(payload) ==
    CASE payload = "experience-a" ->
            <<Experience("", "Tech Lead", Date(2017, 11), NoDate,
                         [defined |-> TRUE, items |-> <<"Led projects">>]),
              Experience("exp-2", "Developer", Date(2024, 11), Date(2025, 11),
                         [defined |-> TRUE, items |-> <<"Basic development">>])>>
      [] OTHER -> <<>>

\* lines 280-283: id: exp.id || uuidv4()
WithIds(experience) ==
    [i \in DOMAIN experience |->
        [experience[i] EXCEPT !.id = IF @ = "" THEN "uuid" ELSE @]]

\* a bug: the wrapper without its try/catch
SoftFail_Mutant(branch) == [state |-> "rejected", value |-> NoValue]

\* the catch blocks of the five wrappers (lines 136-145, 242-245, 284-287, 326-329,
\* 368-371): the wrapper's promise is fulfilled with the empty value of its slice
SoftFail(branch) ==
    [state |-> "fulfilled",
     value |-> CASE branch = "personalInfo" -> Value("object", "", <<>>, EmptySkillSet)
                 [] branch = "skills" -> Value("object", "", <<>>, EmptySkillSet)
                 [] OTHER -> Value("array", "", <<>>, EmptySkillSet)]

\* the try blocks of the five wrappers after generateStructuredResponse resolved with
\* the decoded `text` (lines 131-134, 241, 272-283, 314-325, 356-367)
Extracted(branch, text) ==
    LET shape == ShapeOf(text.tokens)
    IN  CASE branch = "personalInfo" ->
                [state |-> "fulfilled", value |-> Value(shape, text.content, <<>>, EmptySkillSet)]
          [] branch = "skills" ->
                \* skillSet.technical of null throws, and the catch block takes over
                IF shape = "scalar" THEN SoftFail(branch)
                ELSE [state |-> "fulfilled",
                      value |-> Value("object", "", <<>>,
                                      validateAndCleanSkillSet(
                                          RawSkillSets(IF shape = "object"
                                                       THEN text.content ELSE "")))]
          [] branch = "experience" ->
                [state |-> "fulfilled",
                 value |-> IF shape = "array"
                           THEN Value("array", "", WithIds(ExperiencesOf(text.content)),
                                      EmptySkillSet)
                           ELSE Value("array", "", <<>>, EmptySkillSet)]
          [] OTHER ->
                [state |-> "fulfilled",
                 value |-> IF shape = "array"
                           THEN Value("array", text.content, <<>>, EmptySkillSet)
                           ELSE Value("array", "", <<>>, EmptySkillSet)]

\* the promise of extractPersonalInfo .. extractProjects once its call is over
Extract(branch, outcome) ==
    IF outcome.status = "ok" THEN Extracted(branch, outcome.text) ELSE SoftFail(branch)

----------------------------------------------------------------------------
(* The runtime of the analysis specification.  Its answers are fixed for the run: the  *)
(* runtime is up or down, it has a catalog, a pull works or does not, and every        *)
(* extraction prompt has one reply, settled when the prompt is first answered.         *)

RuntimeTags(rt) ==
    IF rt.up THEN [status |-> "ok", models |-> rt.installed]
    ELSE [status |-> "fail", models |-> {}]

RuntimePull(rt) == IF rt.up THEN rt.pull ELSE "fail"

\* a model that was pulled is in the catalog from then on
RuntimePulled(rt, model) ==
    IF RuntimePull(rt) = "ok" THEN [rt EXCEPT !.installed = @ \cup {model}] ELSE rt

TextReply(tokens, content) == [kind |-> "text", text |-> Text(tokens, content)]

Rejection(kind) == [kind |-> kind, text |-> NoText]

\* the JSON the prompt of a branch asks for: an object or an array of objects
GoodTokens(branch) ==
    IF branch \in {"personalInfo", "skills"}
    THEN <<"{", "k", "v", "}">>
    ELSE <<"[", "{", "k", "v", "}", "]">>

PayloadsOf(branch) ==
    CASE branch = "personalInfo" -> {"personalInfo-a"}
      [] branch = "skills" -> {"skills-a"}
      [] branch = "experience" -> {"experience-a"}
      [] branch = "education" -> {"education-a"}
      [] OTHER -> {"projects-a"}

GoodReplies(branch) == {TextReply(GoodTokens(branch), p) : p \in PayloadsOf(branch)}

\* a truncated reply, which does not decode, or a server error
FaultReplies(branch) == {TextReply(<<"{", "k">>, "truncated"), Rejection("500")}

Faults(rt) ==
    {b \in Branches : rt.gen[b].kind # "unset" /\ rt.gen[b] \notin GoodReplies(b)}

SummaryAnswers == {" Seasoned engineer.\n"}

\* the replies POST /api/generate may give to the prompt of call t
GenChoices(t, rt) ==
    IF ~rt.up THEN {Rejection("ECONNREFUSED")}
    ELSE IF t \in Branches
    THEN IF rt.gen[t].kind # "unset" THEN {rt.gen[t]}
         ELSE GoodReplies(t)
              \cup {f \in FaultReplies(t) : Cardinality(Faults(rt) \cup {t}) <= MaxFaults}
    ELSE IF t = "seniority"
    THEN {TextReply(<<"t">>, a) : a \in SeniorityAnswers} \cup {Rejection("500")}
    ELSE {TextReply(<<"t">>, a) : a \in SummaryAnswers} \cup {Rejection("500")}

RuntimeAnswered(rt, t, reply) ==
    IF t \in Branches /\ rt.up THEN [rt EXCEPT !.gen[t] = reply] ELSE rt

----------------------------------------------------------------------------
(* analyzeResume (aiAnalysisService, lines 32-81).  A state of the analysis is the     *)
(* triple c = [task, orch, seniority]; each operator below runs the code that follows  *)
(* the settling of one call, up to the next await.                                     *)

\* line 399, the catch block of generateCareerSummary
DefaultSummary ==
    "Experienced professional with diverse technical skills and industry experience."

\* lines 37-43: the order of the promises handed to Promise.all
BranchOrder == <<"personalInfo", "skills", "experience", "education", "projects">>

\* a bug: the results taken in the order the branches settled
SlotOf_Mutant(branch, settledBefore) == BranchOrder[settledBefore + 1]

\* line 37: Promise.all keeps each result at the position of its promise, and the
\* destructuring names the positions
SlotOf(branch, settledBefore) == branch

\* a bug: the join released by the first branch that settles
JoinComplete_Mutant(slots) == \E b \in Branches : slots[b].state = "fulfilled"

\* line 37: Promise.all resolves when every promise is fulfilled
JoinComplete(slots) == \A b \in Branches : slots[b].state = "fulfilled"

\* lines 49 and 391-395: generateCareerSummary calls ollamaService.generate
StartSummary(c, connected, models) ==
    [c EXCEPT !.task["summary"] =
                    StartCall("plain", AnalysisModel, 1, DefaultRetryDelay, connected, models),
              !.orch.pc = "summary"]

\* line 46: determineSeniority(experience), then line 49 if it returned without a call
AfterJoin(c, connected, models) ==
    LET experience == c.orch.slots["experience"].value.experience
        e == SeniorityEntry(experience, c.orch.west)
        sen == [IdleSeniority EXCEPT
                    !.pc = IF e.path = "call" THEN "awaiting" ELSE "done",
                    !.experience = experience, !.west = c.orch.west,
                    !.path = e.path, !.totalYears = e.totalYears,
                    !.leadership = e.leadership, !.result = e.result]
    IN  IF e.path = "call"
        THEN [c EXCEPT !.seniority = sen, !.orch.pc = "seniority",
                       !.task["seniority"] =
                            StartCall("plain", AnalysisModel, 1, DefaultRetryDelay,
                                      connected, models)]
        ELSE StartSummary([c EXCEPT !.seniority = sen, !.orch.seniorityLevel = e.result],
                          connected, models)

\* the call of an extraction branch is over: its wrapper settles, and Promise.all with
\* it (lines 37-43); a rejection goes to the catch block of lines 77-80
BranchSettled(c, branch, connected, models) ==
    LET result == Extract(branch, c.task[branch].outcome)
        position == SlotOf(branch, Len(c.orch.settled))
        d == [c EXCEPT !.orch.slots[position] = result,
                       !.orch.settled = Append(@, branch)]
    IN  IF c.orch.pc # "extracting" THEN d
        ELSE IF result.state = "rejected"
        THEN [d EXCEPT !.orch.pc = "done", !.orch.outcome = "threw",
                       !.orch.error = "Resume analysis failed"]
        ELSE IF JoinComplete(d.orch.slots) THEN AfterJoin(d, connected, models)
        ELSE d

\* the seniority call is over (lines 195-218), then line 49
SeniorityReturned(c, connected, models) ==
    LET sen == [SeniorityExit(c.seniority, c.task["seniority"].outcome) EXCEPT !.pc = "done"]
    IN  StartSummary([c EXCEPT !.seniority = sen, !.orch.seniorityLevel = sen.result],
                     connected, models)

\* the summary call is over (lines 395-400), then lines 52-76
SummaryReturned(c) ==
    LET outcome == c.task["summary"].outcome
    IN  [c EXCEPT !.orch.careerSummary =
                        IF outcome.status = "ok" THEN Trim(outcome.text.content)
                        ELSE DefaultSummary,
                  !.orch.totalExperienceYears =
                        calculateTotalExperience(c.orch.slots["experience"].value.experience,
                                                 c.orch.west),
                  !.orch.pc = "done", !.orch.outcome = "returned"]

\* what runs when call t has taken a step of the gateway
Continue(c, t, connected, models) ==
    IF c.task[t].pc # "done" THEN c
    ELSE IF t \in Branches THEN BranchSettled(c, t, connected, models)
    ELSE IF t = "seniority" THEN SeniorityReturned(c, connected, models)
    ELSE SummaryReturned(c)

\* one step of the gateway for call t, and what it sets running
Advance(t, r, connected, models, rt) ==
    LET c == Continue([task |-> [task EXCEPT ![t] = r], orch |-> orch,
                       seniority |-> seniority], t, connected, models)
    IN  /\ isConnected' = connected
        /\ availableModels' = models
        /\ runtime' = rt
        /\ task' = c.task
        /\ orch' = c.orch
        /\ seniority' = c.seniority
        /\ UNCHANGED <<decoder, otherVars>>

InitAnalyze ==
    /\ \E connected \in BOOLEAN, models \in {{}, {AnalysisModel}} :
            /\ (connected <=> models # {})
            /\ isConnected = connected
            /\ availableModels = models
    /\ task = [t \in AnalysisTasks |-> IdleTask]
    /\ decoder = IdleDecoder
    /\ seniority = IdleSeniority
    /\ orch = IdleOrch
    /\ IdleOthers
    /\ \E up \in BOOLEAN, installed \in {{}, {AnalysisModel}}, pull \in {"ok", "fail"} :
            /\ (installed # {} => pull = "ok")
            /\ (~up => installed = {} /\ pull = "fail")
            /\ runtime = [NoRuntime EXCEPT !.up = up, !.installed = installed, !.pull = pull]

\* analyzeResume(content) is called: the five wrappers are called in turn, each up to
\* the first await of its generateStructuredResponse call (lines 37-43)
analyzeResume ==
    /\ orch.pc = "idle"
    /\ orch' = [orch EXCEPT !.pc = "extracting", !.entryConnected = isConnected]
    /\ task' = [t \in AnalysisTasks |->
                    IF t \in Branches
                    THEN StartStructured(AnalysisModel, isConnected, availableModels)
                    ELSE task[t]]
    /\ UNCHANGED <<isConnected, availableModels, decoder, seniority, runtime, otherVars>>

AnalysisTagsReturn(t) ==
    /\ task[t].pc = "tags"
    /\ LET reply == RuntimeTags(runtime)
       IN  Advance(t, TagsStep(task[t], reply), TagsConnected(reply),
                   TagsModels(reply, availableModels), runtime)

AnalysisPullReturn(t) ==
    /\ task[t].pc = "pull"
    /\ Advance(t, PullStep(task[t], RuntimePull(runtime)), isConnected, availableModels,
               RuntimePulled(runtime, task[t].model))

AnalysisPullTagsReturn(t) ==
    /\ task[t].pc = "pullTags"
    /\ LET reply == RuntimeTags(runtime)
       IN  Advance(t, PullTagsStep(task[t], reply), isConnected,
                   PullTagsModels(reply, availableModels), runtime)

AnalysisGenReturn(t, reply) ==
    /\ task[t].pc = "gen"
    /\ Advance(t, GenStep(task[t], reply), isConnected, availableModels,
               RuntimeAnswered(runtime, t, reply))

AnalysisWake(t) ==
    /\ task[t].pc = "backoff"
    /\ Advance(t, WakeStep(task[t], isConnected, availableModels), isConnected,
               availableModels, runtime)

NextAnalyze ==
    \/ analyzeResume
    \/ \E t \in AnalysisTasks :
        \/ AnalysisTagsReturn(t)
        \/ AnalysisPullReturn(t)
        \/ AnalysisPullTagsReturn(t)
        \/ \E reply \in GenChoices(t, runtime) : AnalysisGenReturn(t, reply)
        \/ AnalysisWake(t)

SpecAnalyze == InitAnalyze /\ [][NextAnalyze]_vars

----------------------------------------------------------------------------
(* Properties of analyzeResume *)

\* the empty value of a slice, as the specification words it
EmptySlice(branch) ==
    CASE branch = "personalInfo" -> Value("object", "", <<>>, EmptySkillSet)
      [] branch = "skills" ->
            Value("object", "", <<>>,
                  [technical |-> <<>>, soft |-> <<>>, languages |-> <<>>,
                   frameworks |-> <<>>, tools |-> <<>>])
      [] OTHER -> Value("array", "", <<>>, EmptySkillSet)

CallFailed(t) == task[t].pc = "done" /\ task[t].outcome.status = "error"

CallSucceeded(t) == task[t].pc = "done" /\ task[t].outcome.status = "ok"

\* C4: analyzeResume never raises because an extraction call failed; the slice of a
\* failed call is the empty value of that slice (empty record, five empty containers,
\* empty list), and the slice of every other branch is what its own call produced.
C4_SoftFailPerSlice ==
    /\ orch.outcome # "threw"
    /\ \A b \in Branches :
        /\ (CallFailed(b) /\ orch.pc # "extracting") =>
                orch.slots[b] = [state |-> "fulfilled", value |-> EmptySlice(b)]
        /\ (CallSucceeded(b) /\ orch.pc # "extracting") =>
                orch.slots[b] = Extracted(b, task[b].outcome.text)
    /\ orch.pc = "done" =>
        /\ orch.outcome = "returned"
        /\ \A b \in Branches : CallFailed(b) \/ CallSucceeded(b)

\* C4 witness: the analysis returned with the skills call alone failed
C4_Witness ==
    /\ orch.pc = "done" /\ orch.outcome = "returned"
    /\ CallFailed("skills")
    /\ \A b \in Branches \ {"skills"} : CallSucceeded(b)
    /\ orch.slots["skills"].value.skills = EmptySkillSet
    /\ orch.slots["personalInfo"].value.payload = "personalInfo-a"
    /\ Len(orch.slots["experience"].value.experience) = 2

\* C5: when every model call made during analyzeResume has failed, analyzeResume ends
\* by raising 'Resume analysis failed' instead of returning an analysis.
C5_AllFailedRaises ==
    (/\ orch.pc = "done"
     /\ \A b \in Branches : CallFailed(b)
     /\ \A t \in AnalysisTasks : task[t].pc # "idle" => CallFailed(t))
        => (orch.outcome = "threw" /\ orch.error = "Resume analysis failed")

\* C6: the seniority call is issued only when all five extraction branches have
\* settled, and the summary call only when seniority determination is over.
C6_DependentStepsAfterJoin ==
    /\ task["seniority"].pc # "idle" =>
            \A b \in Branches : task[b].pc = "done" /\ orch.slots[b].state # "pending"
    /\ task["summary"].pc # "idle" =>
            /\ \A b \in Branches : task[b].pc = "done" /\ orch.slots[b].state # "pending"
            /\ task["seniority"].pc \in {"idle", "done"}
            /\ seniority.pc = "done"
            /\ orch.seniorityLevel = seniority.result
            /\ orch.seniorityLevel \in SeniorityLevels

\* C6 witness: the summary call in flight after a seniority call that was made
C6_Witness ==
    /\ task["summary"].pc = "gen"
    /\ task["seniority"].pc = "done"
    /\ seniority.path = "valid"

\* what the slice of a branch is, from the fixed answers of the runtime alone: the
\* generation request is reached when the runtime is up and the model is in the
\* catalog the gateway holds or gets (cached, listed, or pulled)
ExpectedSlice(branch) ==
    LET reached == runtime.up /\ (orch.entryConnected \/ AnalysisModel \in runtime.installed)
        reply == runtime.gen[branch]
        decoded == Decode(reply.text)
    IN  IF reached /\ reply.kind = "text" /\ decoded.status = "ok"
        THEN Extracted(branch, decoded.text)
        ELSE [state |-> "fulfilled", value |-> EmptySlice(branch)]

\* C7: for fixed answers of the runtime, the slices of the returned analysis and the
\* years computed from them are the same whatever the order in which the five
\* branches complete: each slice is a function of the answers to its own branch.
C7_OrderIndependent ==
    orch.pc = "done" =>
        /\ \A b \in Branches : orch.slots[b] = ExpectedSlice(b)
        /\ orch.totalExperienceYears =
                calculateTotalExperience(ExpectedSlice("experience").value.experience,
                                         orch.west)

\* C7 witness: an analysis whose branches completed in the reverse of their launch
\* order, the model having been pulled on the way
C7_Witness ==
    /\ orch.pc = "done"
    /\ orch.settled = <<"projects", "education", "experience", "skills", "personalInfo">>
    /\ \A b \in Branches : CallSucceeded(b) /\ task[b].pull = "ok"
    /\ orch.totalExperienceYears = 100

----------------------------------------------------------------------------
(* generateStructuredResponse through the gateway: one caller, any reply *)

StructuredCallers == {"s1"}

\* the texts POST /api/generate may answer a structured prompt with
StructuredTexts == {Text(s, "json") : s \in SeqsUpTo(Tokens, MaxStructuredLen)}

StructuredGenReplies ==
    [kind : {"text"}, text : StructuredTexts]
    \cup [kind : {"empty", "ECONNREFUSED", "404", "500", "other"}, text : {NoText}]

InitStructured ==
    /\ isConnected = FALSE
    /\ availableModels = {}
    /\ task = [t \in StructuredCallers |-> IdleTask]
    /\ decoder = IdleDecoder
    /\ seniority = IdleSeniority
    /\ orch = IdleOrch
    /\ IdleOthers
    /\ runtime = NoRuntime

\* a caller invokes generateStructuredResponse(prompt, model)
CallStructured(t, model) ==
    /\ task[t].pc = "idle"
    /\ task' = [task EXCEPT ![t] = StartStructured(model, isConnected, availableModels)]
    /\ UNCHANGED <<isConnected, availableModels>>

NextStructured ==
    /\ UNCHANGED <<decoder, seniority, analysisVars, otherVars>>
    /\ \E t \in StructuredCallers :
        \/ \E m \in Models : CallStructured(t, m)
        \/ \E reply \in TagsReplies : TagsReturn(t, reply)
        \/ \E reply \in PullReplies : PullReturn(t, reply)
        \/ \E reply \in TagsReplies : PullTagsReturn(t, reply)
        \/ \E reply \in StructuredGenReplies : GenReturn(t, reply)
        \/ Wake(t)
        \/ Release(t)

SpecStructured == InitStructured /\ [][NextStructured]_vars

\* the gateway returned text to the call and the text did not decode
DecodeFailed(r) == r.pc = "done" /\ r.okAt # 0 /\ r.outcome.status = "error"

\* the call failed without the gateway ever returning text
GatewayFailed(r) == r.pc = "done" /\ r.okAt = 0 /\ r.outcome.status = "error"

\* C11: a structured call whose text does not decode fails with the one
\* malformed-response error ('Response is not valid JSON'), and that error is never
\* the error of a gateway failure.
C11_OneMalformedKind ==
    \A t \in DOMAIN task :
        LET r == task[t]
        IN  r.kind = "structured" =>
                /\ DecodeFailed(r) => r.outcome.error = NotJsonError
                /\ GatewayFailed(r) => r.outcome.error # NotJsonError

\* C26: a structured call that the gateway returned text to is over: when the text did
\* not decode, the generation that returned it was the call's last one (no request and
\* no wait follows it) and the only one that resolved; earlier attempts of the call
\* were gateway failures
C26_NoRetryAfterDecodeFailure ==
    \A t \in DOMAIN task :
        LET r == task[t]
        IN  r.kind = "structured" =>
                /\ r.okAt # 0 => r.pc = "done"
                /\ DecodeFailed(r) =>
                        /\ r.okAt = r.attempt
                        /\ r.genCalls = r.attempt
                        /\ Len(r.waits) = r.attempt - 1
                        /\ r.okText.tokens # <<>> => Decode(r.okText).status = "error"

\* the first attempt failed in the gateway and was retried, the second returned a text
\* that does not decode, and the call has failed without a third attempt
C26_Witness ==
    \E t \in DOMAIN task :
        /\ task[t].kind = "structured"
        /\ DecodeFailed(task[t])
        /\ task[t].attempt = 2
        /\ task[t].maxRetries = DefaultMaxRetries
        /\ task[t].waits = <<DefaultRetryDelay>>

----------------------------------------------------------------------------
(* questionGeneratorService: the helpers *)

\* a question as the model wrote it ("" is an absent identifier or category)
RawQuestion(id, question, difficulty, category, skills) ==
    [id |-> id, question |-> question, difficulty |-> difficulty, category |-> category,
     suggestedAnswerFramework |-> Undefined, relatedSkills |-> skills,
     estimatedTime |-> Undefined]

\* lines 372-378
getDefaultFramework(type) ==
    IF type = "technical"
    THEN "Break down the problem, explain your approach, discuss trade-offs, and provide a clear solution with examples."
    ELSE "Use the STAR method: Situation (context), Task (what needed to be done), Action (what you did), Result (outcome and what you learned)."

\* a bug: the requested difficulty returned whatever it is
validateDifficulty_Mutant(questionDifficulty, targetDifficulty) ==
    IF questionDifficulty \in {"Beginner", "Intermediate", "Advanced"} THEN questionDifficulty
    ELSE IF targetDifficulty # Undefined THEN targetDifficulty
    ELSE "Intermediate"

\* lines 358-370; the target is Undefined when the caller passes none
validateDifficulty(questionDifficulty, targetDifficulty) ==
    IF questionDifficulty \in {"Beginner", "Intermediate", "Advanced"} THEN questionDifficulty
    ELSE IF targetDifficulty # Undefined /\ targetDifficulty # "Mixed" THEN targetDifficulty
    ELSE "Intermediate"

\* line 345: q && typeof q.question === 'string' && q.question.trim().length > 0
KeepsQuestion(q) == q.question # Undefined /\ Trim(q.question) # ""

\* the uuidv4() calls made for the first i kept questions
UuidsUsed(kept, i) == Cardinality({j \in 1..i : kept[j].id = ""})

\* lines 346-355
CleanQuestion(q, type, difficulty, uuid) ==
    [id |-> IF q.id = "" THEN Uuid(uuid) ELSE ModelId(q.id),
     type |-> type,
     difficulty |-> validateDifficulty(q.difficulty, difficulty),
     question |-> Trim(q.question),
     category |-> IF q.category \in {"", Undefined}
                  THEN (IF type = "technical" THEN "General Programming" ELSE "General")
                  ELSE q.category,
     suggestedAnswerFramework |->
        IF q.suggestedAnswerFramework \in {"", Undefined} THEN getDefaultFramework(type)
        ELSE q.suggestedAnswerFramework,
     relatedSkills |-> IF q.relatedSkills.array THEN q.relatedSkills ELSE Arr(<<>>),
     estimatedTime |->
        IF q.estimatedTime \in {"", Undefined}
        THEN (IF type = "technical" THEN "5-10 minutes" ELSE "3-5 minutes")
        ELSE q.estimatedTime]

\* lines 335-356; `uuids` identifiers were made before the call
validateAndCleanQuestions(questions, type, difficulty, uuids) ==
    IF ~questions.array THEN <<>>
    ELSE LET kept == SelectSeq(questions.items, KeepsQuestion)
         IN  [i \in DOMAIN kept |->
                CleanQuestion(kept[i], type, difficulty, uuids + UuidsUsed(kept, i))]

\* identifiers the questions of a list took from uuidv4()
UuidsIn(questions) == Cardinality({i \in DOMAIN questions : questions[i].id.src = "uuid"})

\* lines 381-402
FallbackQuestions ==
    <<[question |-> "Tell me about a challenging project you worked on and how you overcame the difficulties.",
       category |-> "Problem-solving"],
      [question |-> "Describe a time when you had to work with a difficult team member. How did you handle it?",
       category |-> "Teamwork"],
      [question |-> "Give me an example of when you had to learn a new technology quickly for a project.",
       category |-> "Adaptability"],
      [question |-> "Tell me about a time when you disagreed with a technical decision. How did you handle it?",
       category |-> "Communication"],
      [question |-> "Describe a situation where you had to meet a tight deadline. How did you manage it?",
       category |-> "Pressure Management"]>>

\* slice(0, n) of a list
Slice(list, n) == SubSeq(list, 1, IF n < Len(list) THEN n ELSE Len(list))

\* lines 380-414
getFallbackBehavioralQuestions(count, uuids) ==
    LET taken == Slice(FallbackQuestions, count)
    IN  [i \in DOMAIN taken |->
            [id |-> Uuid(uuids + i), type |-> "behavioral", difficulty |-> "Intermediate",
             question |-> taken[i].question, category |-> taken[i].category,
             suggestedAnswerFramework |-> getDefaultFramework("behavioral"),
             relatedSkills |-> Arr(<<"Communication", "Problem Solving">>),
             estimatedTime |-> "3-5 minutes"]]

\* the sequences of n distinct positions of a list: what the shuffle of line 331
\* (sort with a random comparator), cut to n, may keep
Picks(len, n) ==
    {p \in [1..n -> 1..len] : \A i, j \in 1..n : i # j => p[i] # p[j]}

\* lines 325-333, for the pick the shuffle made
selectQuestions(questions, targetCount, pick) ==
    IF Len(questions) <= targetCount THEN questions
    ELSE [i \in 1..targetCount |-> questions[pick[i]]]

\* lines 28-33: the skills of the four technical containers, with their categories
allTechnicalSkills(skills) ==
    [i \in DOMAIN skills.technical |->
        [name |-> skills.technical[i].name, category |-> skills.technical[i].category]]
    \o [i \in DOMAIN skills.languages |->
        [name |-> skills.languages[i].name, category |-> "Programming Language"]]
    \o [i \in DOMAIN skills.frameworks |->
        [name |-> skills.frameworks[i].name, category |-> skills.frameworks[i].category]]
    \o [i \in DOMAIN skills.tools |->
        [name |-> skills.tools[i].name, category |-> skills.tools[i].category]]

\* line 261: skill.category || 'General'
CategoryOf(skill) == IF skill.category \in {"", Undefined} THEN "General" ELSE skill.category

RECURSIVE CategoriesIn(_)
\* lines 259-268: the keys of the groups, in the order they were first met
CategoriesIn(skills) ==
    IF skills = <<>> THEN <<>>
    ELSE LET before == CategoriesIn(SubSeq(skills, 1, Len(skills) - 1))
             c == CategoryOf(skills[Len(skills)])
         IN  IF c \in Range(before) THEN before ELSE Append(before, c)

GroupSize(skills, category) ==
    Cardinality({i \in DOMAIN skills : CategoryOf(skills[i]) = category})

\* line 45: Math.ceil(count * (categorySkills.length / allTechnicalSkills.length))
CategoryCount(count, size, total) == (count * size + total - 1) \div total

RECURSIVE Flat(_)
\* line 50: categoryQuestions.flat()
Flat(lists) == IF lists = <<>> THEN <<>> ELSE Head(lists) \o Flat(Tail(lists))

RECURSIVE ContextThrows(_)
\* lines 270-291: the context of the behavioral prompt reads position.toLowerCase() and
\* responsibilities.some() of the entries, up to the first entry that shows leadership
ContextThrows(experience) ==
    IF experience = <<>> THEN FALSE
    ELSE LET exp == Head(experience)
         IN  IF exp.position = Undefined THEN TRUE
             ELSE IF KeywordsIn(exp.position) \cap {"lead", "senior"} # {} THEN FALSE
             ELSE IF ~exp.responsibilities.defined THEN TRUE
             ELSE IF \E i \in DOMAIN exp.responsibilities.items :
                        ResponsibilityLeads(exp.responsibilities.items[i]) THEN FALSE
             ELSE ContextThrows(Tail(experience))

----------------------------------------------------------------------------
(* questionGeneratorService: the inputs and the answers of the model *)

Counts == 1..MaxCount

Difficulties == {"Beginner", "Intermediate", "Advanced", "Mixed"}

QuestionSkill(name, category) == RawSkill(name, category, "Intermediate", "2", Undefined)

QuestionSkillSets ==
    {EmptySkillSet,
     [EmptySkillSet EXCEPT !.frameworks = <<QuestionSkill("React", "")>>],
     [EmptySkillSet EXCEPT !.technical = <<QuestionSkill("Docker", "DevOps"),
                                           QuestionSkill("Kubernetes", "DevOps")>>,
                           !.languages = <<QuestionSkill("Python", "Language")>>]}

QuestionExperiences ==
    {<<>>,
     <<[startDate |-> Date(2020, 1), endDate |-> NoDate, position |-> "Developer",
        responsibilities |-> Plain]>>,
     <<[startDate |-> Date(2020, 1), endDate |-> NoDate, position |-> Undefined,
        responsibilities |-> Plain]>>}

\* the questions the model writes: "unique-id" is the identifier the prompts show in
\* their example (lines 100, 157, 203, 239)
RawQuestions ==
    {RawQuestion("unique-id", "What is a closure?", "Advanced", "JavaScript", Arr(<<"JavaScript">>)),
     RawQuestion("unique-id", " Explain REST. ", "Mixed", "", NotArr),
     RawQuestion("", "How do you test your code?", Undefined, "Testing", Arr(<<>>)),
     RawQuestion("", "   ", "Beginner", "Web", NotArr),
     RawQuestion("q-5", Undefined, "Expert", Undefined, NotArr)}

\* what a structured call settles with: a rejection or a decoded value
Rejected == [status |-> "error", value |-> NotArr]

Decoded(value) == [status |-> "ok", value |-> value]

QuestionReplies ==
    {Rejected, Decoded(NotArr), Decoded(Arr(<<>>))}
    \cup {Decoded(Arr(items)) : items \in SeqsUpTo(RawQuestions, MaxQuestions)}

----------------------------------------------------------------------------
(* questionGeneratorService: the calls *)

\* lines 19-47 up to the await of Promise.all: the general path when there is no
\* technical skill, else one generateCategoryQuestions call per category in flight
GenerateTechnical(skills, count, difficulty) ==
    /\ qgen.pc = "idle"
    /\ LET all == allTechnicalSkills(skills)
           categories == CategoriesIn(all)
       IN  qgen' = [qgen EXCEPT
                !.entry = "technical", !.count = count, !.difficulty = difficulty,
                !.pc = IF all = <<>> THEN "general" ELSE "categories",
                !.categories = [i \in DOMAIN categories |->
                    [category |-> categories[i],
                     count |-> CategoryCount(count, GroupSize(all, categories[i]), Len(all))]],
                !.pending = DOMAIN categories,
                !.byCategory = [i \in DOMAIN categories |-> <<>>],
                !.calls = IF all = <<>> THEN 1 ELSE Len(categories)]
    /\ UNCHANGED exceptQgen

\* lines 134-182: what one category call resolves with; its catch turns a failure
\* into the empty list
CategoryQuestions(reply, difficulty, uuids) ==
    IF reply.status = "error" THEN <<>>
    ELSE validateAndCleanQuestions(reply.value, "technical", difficulty, uuids)

\* the structured call of category i settles; when it is the last one, Promise.all
\* resolves and lines 49-61 merge, select and return
CategoryReturns(i, reply) ==
    /\ qgen.pc = "categories"
    /\ i \in qgen.pending
    /\ LET questions == CategoryQuestions(reply, qgen.difficulty, qgen.uuids)
           lists == [qgen.byCategory EXCEPT ![i] = questions]
           allQuestions == Flat(lists)
           settled == [qgen EXCEPT !.byCategory = lists, !.pending = @ \ {i},
                                   !.uuids = @ + UuidsIn(questions)]
       IN  IF settled.pending # {}
           THEN qgen' = settled
           ELSE \E pick \in Picks(Len(allQuestions), Min({qgen.count, Len(allQuestions)})) :
                    qgen' = [settled EXCEPT
                        !.pc = "done", !.outcome = "returned",
                        !.produced = Len(allQuestions),
                        !.result = selectQuestions(allQuestions, qgen.count, pick)]
    /\ UNCHANGED exceptQgen

\* lines 184-221: the structured call of the general technical path settles
GeneralReturns(reply) ==
    /\ qgen.pc = "general"
    /\ LET questions == IF reply.status = "error" THEN <<>>
                        ELSE validateAndCleanQuestions(reply.value, "technical",
                                                       qgen.difficulty, qgen.uuids)
       IN  qgen' = [qgen EXCEPT !.pc = "done", !.outcome = "returned",
                                !.lastFailed = (reply.status = "error"),
                                !.uuids = @ + UuidsIn(questions),
                                !.produced = Len(questions),
                                !.result = questions]
    /\ UNCHANGED exceptQgen

\* lines 68-118: the general path when there is no experience or when building the
\* context throws (the catch of line 128), else the structured call is in flight
GenerateBehavioral(experience, count) ==
    /\ qgen.pc = "idle"
    /\ qgen' = [qgen EXCEPT
            !.entry = "behavioral", !.count = count, !.difficulty = Undefined,
            !.pc = IF experience = <<>> \/ ContextThrows(experience)
                   THEN "generalBehavioral" ELSE "behavioral",
            !.calls = 1]
    /\ UNCHANGED exceptQgen

\* lines 118-131: the structured call settles; a failure starts the general call
BehavioralReturns(reply) ==
    /\ qgen.pc = "behavioral"
    /\ IF reply.status = "error"
       THEN qgen' = [qgen EXCEPT !.pc = "generalBehavioral", !.mainFailed = TRUE,
                                 !.calls = @ + 1]
       ELSE LET questions == validateAndCleanQuestions(reply.value, "behavioral",
                                                       Undefined, qgen.uuids)
            IN  qgen' = [qgen EXCEPT !.pc = "done", !.outcome = "returned",
                                     !.uuids = @ + UuidsIn(questions),
                                     !.produced = Len(questions),
                                     !.result = Slice(questions, qgen.count)]
    /\ UNCHANGED exceptQgen

\* lines 223-257: the structured call of the general behavioral path settles; a
\* failure returns the hardcoded questions
GeneralBehavioralReturns(reply) ==
    /\ qgen.pc = "generalBehavioral"
    /\ LET questions == IF reply.status = "error"
                        THEN getFallbackBehavioralQuestions(qgen.count, qgen.uuids)
                        ELSE validateAndCleanQuestions(reply.value, "behavioral",
                                                       Undefined, qgen.uuids)
       IN  qgen' = [qgen EXCEPT !.pc = "done", !.outcome = "returned",
                                !.lastFailed = (reply.status = "error"),
                                !.uuids = @ + UuidsIn(questions),
                                !.produced = IF reply.status = "error"
                                             THEN Len(FallbackQuestions) ELSE Len(questions),
                                !.result = questions]
    /\ UNCHANGED exceptQgen

InitQuestions ==
    /\ isConnected = FALSE
    /\ availableModels = {}
    /\ task = [t \in Callers |-> IdleTask]
    /\ decoder = IdleDecoder
    /\ seniority = IdleSeniority
    /\ orch = IdleOrch
    /\ runtime = NoRuntime
    /\ qgen = IdleQgen
    /\ norm = IdleNorm
    /\ road = IdleRoad
    /\ ctl = IdleCtl
    /\ store = IdleStore
    /\ seen = NoneSeen

NextQuestions ==
    \/ \E skills \in QuestionSkillSets, count \in Counts, difficulty \in Difficulties :
            GenerateTechnical(skills, count, difficulty)
    \/ \E i \in DOMAIN qgen.categories, reply \in QuestionReplies : CategoryReturns(i, reply)
    \/ \E reply \in QuestionReplies : GeneralReturns(reply)
    \/ \E experience \in QuestionExperiences, count \in Counts :
            GenerateBehavioral(experience, count)
    \/ \E reply \in QuestionReplies : BehavioralReturns(reply)
    \/ \E reply \in QuestionReplies : GeneralBehavioralReturns(reply)

SpecQuestions == InitQuestions /\ [][NextQuestions]_vars

----------------------------------------------------------------------------
(* questionGeneratorService: properties *)

Returned == qgen.pc = "done" /\ qgen.outcome = "returned"

\* C12: a finished generateTechnicalQuestions or generateBehavioralQuestions call
\* returns exactly min(count, number of valid questions produced) questions
C12_ExactCount ==
    Returned => Len(qgen.result) = Min({qgen.count, qgen.produced})

\* C13: no two questions of a returned list have the same identifier
C13_DistinctIds ==
    Returned => \A i, j \in DOMAIN qgen.result :
                    i # j => qgen.result[i].id # qgen.result[j].id

\* C14: when the model call for behavioral questions failed, the call returns the five
\* hardcoded questions, truncated or repeated, so that exactly count are returned
C14_FallbackFillsCount ==
    (Returned /\ qgen.mainFailed) =>
        /\ Len(qgen.result) = qgen.count
        /\ \A i \in DOMAIN qgen.result :
              LET f == FallbackQuestions[((i - 1) % Len(FallbackQuestions)) + 1]
              IN  qgen.result[i].question = f.question /\ qgen.result[i].category = f.category

----------------------------------------------------------------------------
(* careerGuidanceService: the normalizers *)

\* a skill gap as the model wrote it
RawGap(skill, currentLevel, targetLevel, priority, estimatedLearningTime) ==
    [skill |-> skill, currentLevel |-> currentLevel, targetLevel |-> targetLevel,
     priority |-> priority, estimatedLearningTime |-> estimatedLearningTime]

CurrentLevels == {"None", "Beginner", "Intermediate", "Advanced"}

Priorities == {"High", "Medium", "Low"}

ResourceTypes == {"Course", "Book", "Tutorial", "Documentation", "Practice"}

\* line 332: gap && typeof gap.skill === 'string'
KeepsGap(gap) == gap.skill # Undefined

\* lines 333-341
CleanGap(gap) ==
    RawGap(gap.skill,
           IF gap.currentLevel \in CurrentLevels THEN gap.currentLevel ELSE "None",
           IF gap.targetLevel \in ProficiencyLevels THEN gap.targetLevel ELSE "Intermediate",
           IF gap.priority \in Priorities THEN gap.priority ELSE "Medium",
           IF gap.estimatedLearningTime \in {"", Undefined}
           THEN "3-6 months" ELSE gap.estimatedLearningTime)

\* lines 328-342
validateAndCleanSkillGaps(skillGaps) ==
    IF ~skillGaps.array THEN <<>>
    ELSE LET kept == SelectSeq(skillGaps.items, KeepsGap)
         IN  [i \in DOMAIN kept |-> CleanGap(kept[i])]

\* a learning resource as the model wrote it
RawResource(title, type, description, estimatedTime, difficulty) ==
    [title |-> title, type |-> type, url |-> Undefined, description |-> description,
     estimatedTime |-> estimatedTime, difficulty |-> difficulty]

\* line 348: resource && typeof resource.title === 'string'
KeepsResource(resource) == resource.title # Undefined

\* lines 349-358
CleanResource(resource) ==
    [title |-> resource.title,
     type |-> IF resource.type \in ResourceTypes THEN resource.type ELSE "Course",
     url |-> IF resource.url = "" THEN Undefined ELSE resource.url,
     description |-> IF resource.description = Undefined THEN "" ELSE resource.description,
     estimatedTime |-> IF resource.estimatedTime \in {"", Undefined}
                       THEN "4 weeks" ELSE resource.estimatedTime,
     difficulty |-> IF resource.difficulty \in ProficiencyLevels
                    THEN resource.difficulty ELSE "Intermediate"]

\* lines 344-359
validateAndCleanLearningResources(resources) ==
    IF ~resources.array THEN <<>>
    ELSE LET kept == SelectSeq(resources.items, KeepsResource)
         IN  [i \in DOMAIN kept |-> CleanResource(kept[i])]

\* a value that is not a string and not falsy where an estimate is expected (the
\* number 3)
NotAString == "<number 3>"

\* a roadmap step as the model wrote it ("" is an absent identifier)
RawStep(id, title, estimatedTime, priority) ==
    [id |-> id, title |-> title, description |-> Undefined, skills |-> NotArr,
     estimatedTime |-> estimatedTime, priority |-> priority, resources |-> NotArr,
     prerequisites |-> NotArr]

\* line 365: step && typeof step.title === 'string'
KeepsStep(step) == step.title # Undefined

\* lines 366-375; a prerequisites value that is not an array becomes undefined
CleanStep(step, uuid) ==
    [id |-> IF step.id = "" THEN Uuid(uuid) ELSE ModelId(step.id),
     title |-> step.title,
     description |-> IF step.description = Undefined THEN "" ELSE step.description,
     skills |-> IF step.skills.array THEN step.skills ELSE Arr(<<>>),
     estimatedTime |-> IF step.estimatedTime \in {"", Undefined}
                       THEN "3 months" ELSE step.estimatedTime,
     priority |-> IF step.priority \in Priorities THEN step.priority ELSE "Medium",
     resources |-> IF step.resources.array THEN step.resources ELSE Arr(<<>>),
     prerequisites |-> IF step.prerequisites.array THEN step.prerequisites ELSE NotArr]

\* lines 361-376; `uuids` identifiers were made before the call
validateAndCleanRoadmapSteps(steps, uuids) ==
    IF ~steps.array THEN <<>>
    ELSE LET kept == SelectSeq(steps.items, KeepsStep)
         IN  [i \in DOMAIN kept |-> CleanStep(kept[i], uuids + UuidsUsed(kept, i))]

----------------------------------------------------------------------------
(* the normalizers on their own, over drawn decoded values *)

\* the skill entries of the test of malformed skill data (part_012 lines 419-445), and
\* one without a name
NormSkills ==
    {RawSkill("AWS", "Cloud", "InvalidLevel", Undefined, Undefined),
     RawSkill("", "Cloud", "Intermediate", Undefined, Undefined),
     RawSkill("Docker", "DevOps", "Advanced", "3", Undefined),
     RawSkill(Undefined, "", Undefined, "three", Undefined)}

NormContainers == {NotArr, Arr(<<>>)} \cup {Arr(items) : items \in SeqsUpTo(NormSkills, MaxSkills)}

NormSkillSets ==
    {[technical |-> technical,
      soft |-> Arr(<<RawSkill("Leadership", Undefined, Undefined, Undefined, Undefined)>>),
      languages |-> Arr(<<RawSkill("JavaScript", Undefined, "Advanced", Undefined, Undefined)>>),
      frameworks |-> Arr(<<>>),
      tools |-> tools] :
        technical \in NormContainers,
        tools \in {Arr(<<>>), Arr(<<RawSkill("Git", Undefined, "Expert", Undefined, Undefined)>>)}}

NormQuestionLists == {r.value : r \in QuestionReplies \ {Rejected}}

RawGaps ==
    {RawGap("System Design", "Beginner", "Advanced", "High", "2-3 months"),
     RawGap("Kubernetes", "Expert", "None", "Urgent", ""),
     RawGap("", Undefined, Undefined, Undefined, Undefined),
     RawGap(Undefined, "None", "Beginner", "Low", "6 months")}

RawResources ==
    {RawResource("Designing Data-Intensive Applications", "Book", "A book", "8 weeks", "Advanced"),
     RawResource("Kubernetes workshop", "Video", Undefined, "", "Mixed"),
     RawResource(Undefined, "Course", "No title", "4 weeks", "Beginner")}

RawSteps ==
    {RawStep("step-1", "Learn system design", "3 months", "High"),
     RawStep("step-1", "Lead a project", "6 weeks", "Critical"),
     RawStep("", "Find a mentor", "", Undefined),
     RawStep("", Undefined, "2 months", "Low")}

ListsOf(S) == {NotArr, Arr(<<>>)} \cup {Arr(items) : items \in SeqsUpTo(S, MaxItems)}

InitNormalize ==
    /\ isConnected = FALSE
    /\ availableModels = {}
    /\ task = [t \in {} |-> IdleTask]
    /\ decoder = IdleDecoder
    /\ seniority = IdleSeniority
    /\ orch = IdleOrch
    /\ runtime = NoRuntime
    /\ qgen = IdleQgen
    /\ norm = IdleNorm
    /\ road = IdleRoad
    /\ ctl = IdleCtl
    /\ store = IdleStore
    /\ seen = NoneSeen

Normalized(kind, input, type, difficulty, output) ==
    /\ norm.pc = "idle"
    /\ norm' = [pc |-> "done", kind |-> kind, input |-> input, type |-> type,
                difficulty |-> difficulty, output |-> output]
    /\ UNCHANGED exceptNorm

NormalizeSkillSet(skillSet) ==
    Normalized("skills", skillSet, "", "", validateAndCleanSkillSet(skillSet))

NormalizeQuestions(questions, type, difficulty) ==
    Normalized("questions", questions, type, difficulty,
               validateAndCleanQuestions(questions, type, difficulty, 0))

NormalizeSkillGaps(skillGaps) ==
    Normalized("gaps", skillGaps, "", "", validateAndCleanSkillGaps(skillGaps))

NormalizeLearningResources(resources) ==
    Normalized("resources", resources, "", "", validateAndCleanLearningResources(resources))

NormalizeRoadmapSteps(steps) ==
    Normalized("steps", steps, "", "", validateAndCleanRoadmapSteps(steps, 0))

NextNormalize ==
    \/ \E skillSet \in NormSkillSets : NormalizeSkillSet(skillSet)
    \/ \E questions \in NormQuestionLists, difficulty \in Difficulties :
            NormalizeQuestions(questions, "technical", difficulty)
    \/ \E questions \in NormQuestionLists : NormalizeQuestions(questions, "behavioral", Undefined)
    \/ \E skillGaps \in ListsOf(RawGaps) : NormalizeSkillGaps(skillGaps)
    \/ \E resources \in ListsOf(RawResources) : NormalizeLearningResources(resources)
    \/ \E steps \in ListsOf(RawSteps) : NormalizeRoadmapSteps(steps)

SpecNormalize == InitNormalize /\ [][NextNormalize]_vars

----------------------------------------------------------------------------
(* the normalizers: properties *)

NonEmpty(field) == field # Undefined /\ field # ""

NamedEntries(container) ==
    IF container.array THEN SelectSeq(container.items, LAMBDA skill : NonEmpty(skill.name))
    ELSE <<>>

\* C15: every skill entry a normalizer keeps has a non-empty name, the entries without
\* one being exactly those dropped, and every question it keeps has a non-blank text
C15_RequiredFieldsNonEmpty ==
    norm.pc = "done" =>
        /\ norm.kind = "skills" =>
              \A c \in DOMAIN norm.output :
                  /\ \A i \in DOMAIN norm.output[c] : NonEmpty(norm.output[c][i].name)
                  /\ Len(norm.output[c]) = Len(NamedEntries(norm.input[c]))
        /\ norm.kind = "questions" =>
              \A i \in DOMAIN norm.output : NonEmpty(norm.output[i].question)

----------------------------------------------------------------------------
(* calculateTotalExperience: properties *)

\* the whole months from the start to the end of an entry as the calendar counts
\* them, the end defaulting to today; an entry whose dates do not parse adds none
CalendarMonths(exp) ==
    LET endDate == IF exp.endDate = NoDate THEN Now ELSE exp.endDate
        months == (endDate.y * 12 + endDate.m) - (exp.startDate.y * 12 + exp.startDate.m)
    IN  IF exp.startDate \in {NoDate, BadDate} \/ exp.endDate = BadDate THEN 0
        ELSE IF months > 0 THEN months ELSE 0

RECURSIVE SumCalendarMonths(_)
SumCalendarMonths(experience) ==
    IF experience = <<>> THEN 0
    ELSE CalendarMonths(Head(experience)) + SumCalendarMonths(Tail(experience))

\* the lists that hold the entries of a list in another order
Reorderings(experience) ==
    {[i \in DOMAIN experience |-> experience[p[i]]] :
        p \in {q \in [DOMAIN experience -> DOMAIN experience] :
                    \A i, j \in DOMAIN experience : i # j => q[i] # q[j]}}

\* C17: the total experience computed for a list of entries is non-negative, is the
\* same for every order of the entries, and is the sum over the entries of the
\* whole months between start and end (end defaulting to today, negative spans
\* counting zero), in years rounded to one decimal
C17_TotalExperience ==
    (seniority.pc # "idle" /\ seniority.experience # <<>>) =>
        /\ seniority.totalYears >= 0
        /\ \A other \in Reorderings(seniority.experience) :
              calculateTotalExperience(other, seniority.west) = seniority.totalYears
        /\ seniority.totalYears = RoundToTenths(SumCalendarMonths(seniority.experience))

----------------------------------------------------------------------------
(* careerGuidanceService: the fallbacks and the timeline *)

\* lines 378-389
getFallbackTargetRole(currentLevel) ==
    CASE currentLevel = "Entry" -> "Junior Software Developer"
      [] currentLevel = "Junior" -> "Software Developer"
      [] currentLevel = "Mid" -> "Senior Software Developer"
      [] currentLevel = "Senior" -> "Lead Software Engineer"
      [] currentLevel = "Lead" -> "Principal Software Engineer"
      [] currentLevel = "Principal" -> "Staff Software Engineer"
      [] OTHER -> "Senior Software Developer"

\* a bug: no gap when the call failed
generateFallbackSkillGaps_Mutant(targetRole) == <<>>

\* lines 391-417
generateFallbackSkillGaps(targetRole) ==
    <<RawGap("System Design", "Beginner", "Intermediate", "High", "4-6 months"),
      RawGap("Cloud Technologies", "None", "Intermediate", "High", "3-4 months"),
      RawGap("Leadership Skills", "Beginner", "Intermediate", "Medium", "6 months")>>

\* lines 419-436
generateFallbackResources(skillGaps) ==
    <<RawResource("System Design Interview Course", "Course",
                  "Comprehensive system design fundamentals", "8 weeks", "Intermediate"),
      RawResource("Cloud Computing Fundamentals", "Course",
                  "Introduction to cloud platforms and services", "6 weeks", "Beginner")>>

FallbackStep(uuid, title, description, skills, estimatedTime, priority) ==
    [id |-> Uuid(uuid), title |-> title, description |-> description, skills |-> Arr(skills),
     estimatedTime |-> estimatedTime, priority |-> priority, resources |-> Arr(<<>>),
     prerequisites |-> NotArr]

\* lines 438-468; `uuids` identifiers were made before the call
generateFallbackRoadmapSteps(currentLevel, targetRole, uuids) ==
    <<FallbackStep(uuids + 1, "Strengthen Core Technical Skills",
                   "Focus on mastering fundamental programming concepts and best practices",
                   <<"Programming Fundamentals", "Code Quality">>, "3 months", "High"),
      FallbackStep(uuids + 2, "Learn Modern Technologies",
                   "Gain experience with current industry-standard tools and frameworks",
                   <<"Modern Frameworks", "Cloud Technologies">>, "4 months", "High"),
      FallbackStep(uuids + 3, "Develop Leadership Skills",
                   "Build communication and mentoring capabilities",
                   <<"Leadership", "Communication">>, "6 months", "Medium")>>

NoMatch == [matched |-> FALSE, value |-> 0, unit |-> ""]

Match(value, unit) == [matched |-> TRUE, value |-> value, unit |-> unit]

\* line 281: estimatedTime.match(/(\d+)\s*(month|week)/i) on the estimates the steps
\* carry: the leftmost run of digits that a unit follows, the unit in lower case
TimeMatch(estimatedTime) ==
    CASE estimatedTime = "3 months" -> Match(3, "month")
      [] estimatedTime = "4 months" -> Match(4, "month")
      [] estimatedTime = "6 months" -> Match(6, "month")
      [] estimatedTime = "14 months" -> Match(14, "month")
      [] estimatedTime = "1 Month" -> Match(1, "month")
      [] estimatedTime = "2-3 months" -> Match(3, "month")
      [] estimatedTime = "6 weeks" -> Match(6, "week")
      [] estimatedTime = "8 weeks" -> Match(8, "week")
      [] OTHER -> NoMatch

\* lines 283-292: what a step adds to totalMonths
StepMonths(step) ==
    LET timeMatch == TimeMatch(step.estimatedTime)
    IN  IF ~timeMatch.matched THEN 0
        ELSE IF timeMatch.unit = "month" THEN timeMatch.value
        ELSE (timeMatch.value + 3) \div 4

RECURSIVE TimelineMonths(_)
TimelineMonths(steps) ==
    IF steps = <<>> THEN 0 ELSE StepMonths(Head(steps)) + TimelineMonths(Tail(steps))

\* line 281 on an estimate that is not a string: match is not a function
TimelineThrows(steps) == \E i \in DOMAIN steps : steps[i].estimatedTime = NotAString

\* line 274
EmptyTimeline == "6 months"

\* lines 273-311, for steps whose estimates are strings
calculateTimelineEstimate(steps) ==
    LET totalMonths == TimelineMonths(steps)
        hasValidEstimates == \E i \in DOMAIN steps : TimeMatch(steps[i].estimatedTime).matched
        years == totalMonths \div 12
        remainingMonths == totalMonths % 12
        yearsText == ToString(years) \o " year" \o (IF years > 1 THEN "s" ELSE "")
    IN  IF Len(steps) = 0 THEN EmptyTimeline
        ELSE IF ~hasValidEstimates THEN "6-12 months"
        ELSE IF totalMonths <= 12 THEN ToString(totalMonths) \o " months"
        ELSE IF remainingMonths = 0 THEN yearsText
        ELSE yearsText \o " " \o ToString(remainingMonths) \o " month"
                \o (IF remainingMonths > 1 THEN "s" ELSE "")

\* lines 313-326
determineOverallPriority(skillGaps, currentLevel) ==
    LET highPriorityGaps == Cardinality({i \in DOMAIN skillGaps : skillGaps[i].priority = "High"})
        totalGaps == Len(skillGaps)
    IN  IF highPriorityGaps >= 3 \/ (totalGaps > 0 /\ 2 * highPriorityGaps > totalGaps)
        THEN "High"
        ELSE IF currentLevel \in {"Entry", "Junior"} THEN "High"
        ELSE IF totalGaps > 2 THEN "Medium" ELSE "Low"

----------------------------------------------------------------------------
(* careerGuidanceService: generateRoadmap *)

Stages == <<"targetRole", "skillGaps", "resources", "steps">>

\* a bug: the steps asked for before the resources
NextStage_Mutant(stage) ==
    CASE stage = "targetRole" -> "skillGaps"
      [] stage = "skillGaps" -> "steps"
      [] stage = "steps" -> "resources"
      [] OTHER -> "none"

\* lines 31-36: the stage generateRoadmap awaits after a stage
NextStage(stage) ==
    CASE stage = "targetRole" -> "skillGaps"
      [] stage = "skillGaps" -> "resources"
      [] stage = "resources" -> "steps"
      [] OTHER -> "none"

\* the model call of a stage is issued and awaited
Issue(r, stage) ==
    [r EXCEPT !.pc = stage, !.issued = Append(@, stage), !.inFlight = @ \cup {stage}]

\* lines 38-60: the steps call is over; the timeline, the priority and the roadmap
Finish(r) ==
    IF TimelineThrows(r.recommendedPath)
    THEN [r EXCEPT !.pc = "done", !.outcome = "raised"]
    ELSE [r EXCEPT !.pc = "done", !.outcome = "returned",
                   !.timelineEstimate = calculateTimelineEstimate(r.recommendedPath),
                   !.overallPriority = determineOverallPriority(r.skillGaps, r.level),
                   !.uuids = @ + 1]

RECURSIVE Enter(_, _)
\* a stage is called: it fails before its model call when formatSkillsForAnalysis
\* throws (lines 159, 71), it returns without a call when there is no gap to find
\* resources for (lines 114-116), else its model call is issued
Enter(r, stage) ==
    CASE stage = "none" -> Finish(r)
      [] stage = "targetRole" /\ ~r.skillsOk ->
            Enter([r EXCEPT !.targetRole = getFallbackTargetRole(r.level),
                            !.failed = @ \cup {stage}], NextStage(stage))
      [] stage = "skillGaps" /\ ~r.skillsOk ->
            Enter([r EXCEPT !.skillGaps = generateFallbackSkillGaps(r.targetRole),
                            !.failed = @ \cup {stage}], NextStage(stage))
      [] stage = "resources" /\ r.skillGaps = <<>> ->
            Enter([r EXCEPT !.learningResources = <<>>], NextStage(stage))
      [] OTHER -> Issue(r, stage)

\* the model call of a stage has settled
Settled(r, stage, reply) ==
    [r EXCEPT !.inFlight = @ \ {stage},
              !.failed = IF reply.status = "error" THEN @ \cup {stage} ELSE @,
              !.replies = Append(@, reply)]

\* what ollamaService.generate settles with for the target role
RoleReplies ==
    {[status |-> "error", text |-> ""], [status |-> "ok", text |-> " Lead\n"],
     [status |-> "ok", text |-> "Engineering Manager"]}

RoadLevels == {"Entry", "Senior", "Staff"}

RoadGaps ==
    {RawGap("System Design", "Beginner", "Advanced", "High", "2-3 months"),
     RawGap("Kubernetes", "Expert", "None", "Urgent", ""),
     RawGap(Undefined, "None", "Beginner", "Low", "6 months")}

RoadResources ==
    {RawResource("Kubernetes workshop", "Video", Undefined, "", "Mixed"),
     RawResource(Undefined, "Course", "No title", "4 weeks", "Beginner")}

RoadSteps ==
    {RawStep("step-1", "Learn system design", "3 months", "High"),
     RawStep("", "Lead a project", "6 weeks", "Critical"),
     RawStep("", "Find a mentor", "ongoing", Undefined),
     RawStep("step-4", "Run the platform", "14 months", "Low"),
     RawStep("step-5", "Practice", NotAString, "Low")}

StructuredReplies(S) == {Rejected} \cup {Decoded(value) : value \in ListsOf(S)}

\* lines 22-31: generateRoadmap(analysis) up to its first await
generateRoadmap(level, skillsOk) ==
    /\ road.pc = "idle"
    /\ road' = Enter([road EXCEPT !.level = level, !.skillsOk = skillsOk], "targetRole")
    /\ UNCHANGED exceptRoad

\* lines 184-192 and 32: determineTargetRole is over, the next stage is called
TargetRoleReturns(reply) ==
    /\ road.pc = "targetRole"
    /\ "targetRole" \in road.inFlight
    /\ LET role == IF reply.status = "error" THEN getFallbackTargetRole(road.level)
                   ELSE Trim(reply.text)
       IN  road' = Enter([Settled(road, "targetRole", reply) EXCEPT !.targetRole = role],
                         NextStage("targetRole"))
    /\ UNCHANGED exceptRoad

\* lines 103-109 and 33: identifySkillGaps is over
SkillGapsReturn(reply) ==
    /\ road.pc = "skillGaps"
    /\ "skillGaps" \in road.inFlight
    /\ LET gaps == IF reply.status = "error" THEN generateFallbackSkillGaps(road.targetRole)
                   ELSE validateAndCleanSkillGaps(reply.value)
       IN  road' = Enter([Settled(road, "skillGaps", reply) EXCEPT !.skillGaps = gaps],
                         NextStage("skillGaps"))
    /\ UNCHANGED exceptRoad

\* lines 148-154 and 36: recommendResources is over, generateRoadmapSteps is called
\* with the analysis, the skill gaps and the target role
ResourcesStep(r, reply) ==
    LET resources == IF reply.status = "error" THEN generateFallbackResources(r.skillGaps)
                     ELSE validateAndCleanLearningResources(reply.value)
    IN  Enter([Settled(r, "resources", reply) EXCEPT !.learningResources = resources],
              NextStage("resources"))

ResourcesReturn(reply) ==
    /\ road.pc = "resources"
    /\ "resources" \in road.inFlight
    /\ road' = ResourcesStep(road, reply)
    /\ UNCHANGED exceptRoad

\* lines 238-244 and 38-66: generateRoadmapSteps is over
StepsStep(r, reply) ==
    LET steps == IF reply.status = "error"
                 THEN generateFallbackRoadmapSteps(r.level, r.targetRole, r.uuids)
                 ELSE validateAndCleanRoadmapSteps(reply.value, r.uuids)
    IN  Enter([Settled(r, "steps", reply) EXCEPT
                    !.recommendedPath = steps, !.uuids = @ + UuidsIn(steps)],
              NextStage("steps"))

StepsReturn(reply) ==
    /\ road.pc = "steps"
    /\ "steps" \in road.inFlight
    /\ road' = StepsStep(road, reply)
    /\ UNCHANGED exceptRoad

InitRoadmap ==
    /\ isConnected = FALSE
    /\ availableModels = {}
    /\ task = [t \in {} |-> IdleTask]
    /\ decoder = IdleDecoder
    /\ seniority = IdleSeniority
    /\ orch = IdleOrch
    /\ runtime = NoRuntime
    /\ qgen = IdleQgen
    /\ norm = IdleNorm
    /\ road = IdleRoad
    /\ ctl = IdleCtl
    /\ store = IdleStore
    /\ seen = NoneSeen

NextRoadmap ==
    \/ \E level \in RoadLevels, skillsOk \in BOOLEAN : generateRoadmap(level, skillsOk)
    \/ \E reply \in RoleReplies : TargetRoleReturns(reply)
    \/ \E reply \in StructuredReplies(RoadGaps) : SkillGapsReturn(reply)
    \/ \E reply \in StructuredReplies(RoadResources) : ResourcesReturn(reply)
    \/ \E reply \in StructuredReplies(RoadSteps) : StepsReturn(reply)

SpecRoadmap == InitRoadmap /\ [][NextRoadmap]_vars

----------------------------------------------------------------------------
(* generateRoadmap: properties *)

StageIndex(stage) == CHOOSE i \in DOMAIN Stages : Stages[i] = stage

\* what the stage whose call settled with the i-th reply holds when its call succeeded
OwnOutput(stage, reply) ==
    CASE stage = "targetRole" -> Trim(reply.text)
      [] stage = "skillGaps" -> validateAndCleanSkillGaps(reply.value)
      [] stage = "resources" -> validateAndCleanLearningResources(reply.value)
      [] OTHER -> validateAndCleanRoadmapSteps(reply.value, 0)

OutputOf(r, stage) ==
    CASE stage = "targetRole" -> r.targetRole
      [] stage = "skillGaps" -> r.skillGaps
      [] stage = "resources" -> r.learningResources
      [] OTHER -> r.recommendedPath

\* C18: a stage that failed holds its fixed fallback content, a stage whose call
\* succeeded holds what its own call produced whatever failed before it, every stage
\* has run when the request is over, and the request returns when every call failed
C18_FallbackPerStage ==
    /\ "targetRole" \in road.failed =>
          road.targetRole =
             (CASE road.level = "Entry" -> "Junior Software Developer"
                [] road.level = "Senior" -> "Lead Software Engineer"
                [] OTHER -> "Senior Software Developer")
    /\ "skillGaps" \in road.failed =>
          [i \in DOMAIN road.skillGaps |-> road.skillGaps[i].skill]
             = <<"System Design", "Cloud Technologies", "Leadership Skills">>
    /\ "resources" \in road.failed =>
          [i \in DOMAIN road.learningResources |-> road.learningResources[i].title]
             = <<"System Design Interview Course", "Cloud Computing Fundamentals">>
    /\ "steps" \in road.failed =>
          [i \in DOMAIN road.recommendedPath |-> road.recommendedPath[i].title]
             = <<"Strengthen Core Technical Skills", "Learn Modern Technologies",
                 "Develop Leadership Skills">>
    /\ \A i \in DOMAIN road.replies :
          road.replies[i].status = "ok" =>
              OutputOf(road, road.issued[i]) = OwnOutput(road.issued[i], road.replies[i])
    /\ road.pc = "done" =>
          \A i \in DOMAIN Stages :
              \/ Stages[i] \in Range(road.issued) \cup road.failed
              \/ Stages[i] = "resources" /\ road.skillGaps = <<>>
    /\ (road.pc = "done" /\ Range(road.issued) \subseteq road.failed) =>
          road.outcome = "returned"

\* the skill-gap call failed, and the two stages after it made their calls, the last
\* with success
C18_Witness ==
    /\ road.pc = "done" /\ road.outcome = "returned"
    /\ "skillGaps" \in Range(road.issued) \cap road.failed
    /\ "resources" \in Range(road.issued)
    /\ "steps" \in Range(road.issued) \ road.failed

\* C19: the stage calls of a roadmap request are issued in the order target role,
\* skill gaps, resources, steps, and at most one of them, the last issued, is in flight
C19_StagesInOrder ==
    /\ \A i, j \in DOMAIN road.issued :
          i < j => StageIndex(road.issued[i]) < StageIndex(road.issued[j])
    /\ Cardinality(road.inFlight) <= 1
    /\ road.inFlight \subseteq {road.issued[i] : i \in {Len(road.issued)} \cap DOMAIN road.issued}

\* the call of the fourth stage is in flight after the three before it
C19_Witness == road.issued = Stages /\ road.inFlight = {"steps"}

\* C20: the timeline of a roadmap none of whose steps has an estimate of the form
\* N month(s) or N week(s) is '6-12 months', the roadmap without steps included, and
\* the steps whose estimate does not parse add nothing to the timeline of the others
C20_DefaultTimeline ==
    (road.pc = "done" /\ road.outcome = "returned") =>
        LET parsed == SelectSeq(road.recommendedPath,
                                LAMBDA step : TimeMatch(step.estimatedTime).matched)
        IN  /\ parsed = <<>> => road.timelineEstimate = "6-12 months"
            /\ parsed # <<>> => road.timelineEstimate = calculateTimelineEstimate(parsed)

----------------------------------------------------------------------------
(* questionController: the three question routes *)

\* part_006 lines 135-139 and 159-170: questionConfigSchema on a configuration
validateQuestionConfig(technicalCount, behavioralCount, difficulty) ==
    /\ technicalCount \in MinQuestionCount..MaxQuestionCount
    /\ behavioralCount \in MinQuestionCount..MaxQuestionCount
    /\ difficulty \in {"Beginner", "Intermediate", "Advanced", "Mixed"}

\* part_007 lines 35-48: the model calls generateTechnicalQuestions issues before its
\* first await; a category asked for no question makes none (line 140)
TechnicalCalls(skills, count) ==
    LET all == allTechnicalSkills(skills)
        categories == CategoriesIn(all)
    IN  IF all = <<>> THEN 1
        ELSE Cardinality({i \in DOMAIN categories :
                CategoryCount(count, GroupSize(all, categories[i]), Len(all)) > 0})

\* part_007 lines 75-118: generateBehavioralQuestions issues one, on either path
BehavioralCalls == 1

RouteCounts == {MinQuestionCount - 1, MinQuestionCount, MaxQuestionCount, MaxQuestionCount + 1}

RouteDifficulties == Difficulties \cup {"Expert"}

Answer(status) == [IdleCtl EXCEPT !.pc = "done", !.status = status]

\* part_011 lines 7-70: POST /api/questions up to the await of Promise.all
PostQuestions(analysis, config, skills, technicalCount, behavioralCount, difficulty) ==
    /\ ctl.pc = "idle"
    /\ ctl' = IF ~analysis \/ ~config
                 \/ ~validateQuestionConfig(technicalCount, behavioralCount, difficulty)
              THEN [Answer(400) EXCEPT !.route = "questions",
                        !.technicalCount = technicalCount,
                        !.behavioralCount = behavioralCount, !.difficulty = difficulty]
              ELSE [IdleCtl EXCEPT !.pc = "calling", !.route = "questions",
                        !.technicalCount = technicalCount,
                        !.behavioralCount = behavioralCount, !.difficulty = difficulty,
                        !.modelCalls = TechnicalCalls(skills, technicalCount) + BehavioralCalls]
    /\ UNCHANGED exceptCtl

\* part_011 lines 121-144: POST /api/questions/technical up to its await; the count
\* and the difficulty are those of the body or the defaults
PostTechnical(skills, given, count, difficulty) ==
    /\ ctl.pc = "idle"
    /\ ctl' = IF ~given
              THEN [Answer(400) EXCEPT !.route = "technical", !.technicalCount = count,
                                       !.difficulty = difficulty]
              ELSE [IdleCtl EXCEPT !.pc = "calling", !.route = "technical",
                        !.technicalCount = count, !.difficulty = difficulty,
                        !.modelCalls = TechnicalCalls(skills, count)]
    /\ UNCHANGED exceptCtl

\* part_011 lines 176-198: POST /api/questions/behavioral up to its await
PostBehavioral(given, count) ==
    /\ ctl.pc = "idle"
    /\ ctl' = IF ~given
              THEN [Answer(400) EXCEPT !.route = "behavioral", !.behavioralCount = count]
              ELSE [IdleCtl EXCEPT !.pc = "calling", !.route = "behavioral",
                        !.behavioralCount = count, !.modelCalls = BehavioralCalls]
    /\ UNCHANGED exceptCtl

\* the generator has returned (200) or, generateTechnicalQuestions only, thrown (500)
Respond(threw) ==
    /\ ctl.pc = "calling"
    /\ threw => ctl.route # "behavioral"
    /\ ctl' = [ctl EXCEPT !.pc = "done", !.status = IF threw THEN 500 ELSE 200]
    /\ UNCHANGED exceptCtl

\* the next request
NextRequest ==
    /\ ctl.pc = "done"
    /\ ctl' = IdleCtl
    /\ UNCHANGED exceptCtl

InitController ==
    /\ isConnected = FALSE
    /\ availableModels = {}
    /\ task = [t \in {} |-> IdleTask]
    /\ decoder = IdleDecoder
    /\ seniority = IdleSeniority
    /\ orch = IdleOrch
    /\ runtime = NoRuntime
    /\ IdleOthers

NextController ==
    \/ \E analysis, config \in BOOLEAN, skills \in QuestionSkillSets,
          technicalCount, behavioralCount \in RouteCounts, difficulty \in RouteDifficulties :
            PostQuestions(analysis, config, skills, technicalCount, behavioralCount, difficulty)
    \/ \E skills \in QuestionSkillSets, given \in BOOLEAN,
          count \in RouteCounts \cup {DefaultQuestionCount},
          difficulty \in RouteDifficulties :
            PostTechnical(skills, given, count, difficulty)
    \/ \E given \in BOOLEAN, count \in RouteCounts \cup {DefaultQuestionCount} :
            PostBehavioral(given, count)
    \/ \E threw \in BOOLEAN : Respond(threw)
    \/ NextRequest

SpecController == InitController /\ [][NextController]_vars

\* C21: a question request whose count is outside 1..50 or whose difficulty is not one
\* of the four values makes no model call and is answered with a validation error,
\* on the combined, the technical and the behavioral route
C21_ValidatedBeforeModelCall ==
    LET valid ==
            /\ ctl.route \in {"questions", "technical"} =>
                  /\ ctl.technicalCount \in 1..50
                  /\ ctl.difficulty \in {"Beginner", "Intermediate", "Advanced", "Mixed"}
            /\ ctl.route \in {"questions", "behavioral"} => ctl.behavioralCount \in 1..50
    IN  (ctl.pc # "idle" /\ ~valid) => (ctl.modelCalls = 0 /\ ctl.pc = "done" /\ ctl.status = 400)

----------------------------------------------------------------------------
(* the model calls of the orchestrator: properties *)

\* C22: a model call of the orchestrator is reported failed by the gateway only after
\* the attempts of the retry loop are used up: a call that never got a reply and ended
\* in an error made DefaultMaxRetries attempts
C22_FailsOnlyAfterRetries ==
    \A t \in DOMAIN task :
        (task[t].pc = "done" /\ task[t].outcome.status = "error" /\ task[t].okAt = 0) =>
            task[t].attempt = DefaultMaxRetries

\* lines 44-52 and 63-66: what generateRoadmap returns (its id is a fresh uuid), or
\* that it raised
Roadmap(r) ==
    [outcome |-> r.outcome, currentLevel |-> r.level, targetRole |-> r.targetRole,
     recommendedPath |-> r.recommendedPath, skillGaps |-> r.skillGaps,
     timelineEstimate |-> r.timelineEstimate, overallPriority |-> r.overallPriority]

\* the roadmap of the run that goes on from `r`, where stage 3 awaits its model call,
\* with these answers to the calls of stages 3 and 4
RoadmapAfter(r, resources, steps) == Roadmap(StepsStep(ResourcesStep(r, resources), steps))

\* C27: what stage 3 returns is an input of step synthesis, so the roadmap depends on
\* it: where stage 3 awaits its recommendation there are two answers to it that, with
\* the same answer to the steps call, end in different roadmaps
C27_RoadmapDependsOnResources ==
    (road.pc = "resources" /\ "resources" \in road.inFlight) =>
        \E first, second \in StructuredReplies(RoadResources),
           steps \in StructuredReplies(RoadSteps) :
            RoadmapAfter(road, first, steps) # RoadmapAfter(road, second, steps)

----------------------------------------------------------------------------
(* The model catalog and the connection flag (ollamaService.ts, lines 100-131):
   the gateway's callers together with the last answer received to GET /api/tags *)

\* the answer to a GET /api/tags as its receiver saw it
Seen(by, reply) == [by |-> by, status |-> reply.status, models |-> reply.models]

InitCatalog == Init

NextCatalog ==
    /\ UNCHANGED exceptGateway
    /\ \E t \in Callers :
        \/ \E m \in Models : Call(t, m, 1, DefaultRetryDelay) /\ UNCHANGED seen
        \/ \E reply \in TagsReplies :
                TagsReturn(t, reply) /\ seen' = Seen("checkConnection", reply)
        \/ \E reply \in PullReplies : PullReturn(t, reply) /\ UNCHANGED seen
        \/ \E reply \in TagsReplies :
                PullTagsReturn(t, reply) /\ seen' = Seen("getAvailableModels", reply)
        \/ \E reply \in GenReplies : GenReturn(t, reply) /\ UNCHANGED seen
        \/ Release(t) /\ UNCHANGED seen

SpecCatalog == InitCatalog /\ [][NextCatalog]_vars

\* C23: whenever the cached model list changes, it becomes exactly the list of the
\* catalog answer just received, and that answer was a successful one: the list is
\* replaced as a whole, never merged with the old one or patched
C23_CatalogReplaced ==
    [][availableModels' # availableModels =>
            /\ seen'.by \in {"checkConnection", "getAvailableModels"}
            /\ seen'.by = "checkConnection" => seen'.status = "ok"
            /\ seen'.by = "getAvailableModels" => seen'.status # "fail"
            /\ availableModels' = seen'.models]_vars

\* a catalog answer that lacks a model of the old list has replaced the list
C23_Witness ==
    /\ seen.by = "getAvailableModels"
    /\ seen.status = "ok"
    /\ availableModels = seen.models
    /\ availableModels = {"mistral"}
    /\ \E t \in Callers : task[t].model = "llama2" /\ task[t].pull = "ok"

\* a call's checkConnection completes in this step
CheckCompletes(t) == task[t].pc = "tags" /\ task'[t].pc # "tags"

\* C29: the connection flag changes only in a step that completes a checkConnection;
\* a generation, a pull and the catalog query after a pull leave it as it is, and a
\* checkConnection that does not find the runtime leaves the cached list as it is
C29_FlagOnlyByCheck ==
    [][/\ isConnected' # isConnected => \E t \in Callers : CheckCompletes(t)
       /\ \A t \in Callers :
            (task[t].pc \in {"gen", "pull", "pullTags"} /\ task'[t] # task[t]) =>
                isConnected' = isConnected
       /\ \A t \in Callers :
            (task[t].pc = "idle" /\ task'[t].pc # "idle" /\ isConnected) =>
                "tags" \notin Range(task'[t].sends)
       /\ \A t \in Callers :
            (CheckCompletes(t) /\ ~isConnected') => availableModels' = availableModels]_vars

\* one call's generation was refused by the runtime and the flag is still set: another
\* call entered with the flag set is at its generation request without a check
C29_Witness ==
    /\ isConnected
    /\ \E t, u \in Callers :
            /\ task[t].pc = "done"
            /\ task[t].callError = MapError(GenRejection([kind |-> "ECONNREFUSED"], ""), "")
            /\ task[u].pc = "gen"
            /\ task[u].entryConnected
            /\ task[u].sends = <<"gen">>

\* C28: a generate call that gets past the connection check sends POST /api/pull
\* exactly when its model is not in the cached catalog at that moment, whatever the
\* other calls are doing: a pull of the same model already in flight is not waited
\* for or shared, so every such call has its own pull request in flight
C28_OwnPullPerCall ==
    [][\A t \in Callers :
            (task[t].pc \in {"idle", "tags", "backoff"} /\ task'[t].pc \in {"pull", "gen"}) =>
                /\ task'[t].pc = "pull" <=> task'[t].model \notin availableModels'
                /\ task'[t].pc = "pull" => task'[t].sends[Len(task'[t].sends)] = "pull"]_vars

\* both callers have a pull of the same model in flight
C28_Witness ==
    /\ \A t \in Callers :
            /\ task[t].pc = "pull"
            /\ task[t].model = "llama2"
            /\ "pull" \in Range(task[t].sends)
    /\ "llama2" \notin availableModels

----------------------------------------------------------------------------
(* The waits of generateWithRetry (ollamaService.ts, lines 210-232): two callers
   with their own first delay, the first of them with every number of attempts *)

\* largest maxRetries argument of the first caller
MaxAttempts == 3

\* the retryDelay argument each caller passes
BackoffDelay(t) == IF t = "c1" THEN 10 ELSE DefaultRetryDelay

\* the maxRetries argument each caller passes
BackoffRetries(t) == IF t = "c1" THEN 0..MaxAttempts ELSE {1}

InitBackoff == Init

NextBackoff ==
    /\ UNCHANGED <<decoder, seniority, analysisVars, otherVars>>
    /\ \E t \in Callers :
        \/ \E n \in BackoffRetries(t) : Call(t, "llama2", n, BackoffDelay(t))
        \/ \E reply \in TagsReplies : TagsReturn(t, reply)
        \/ \E reply \in PullReplies : PullReturn(t, reply)
        \/ \E reply \in TagsReplies : PullTagsReturn(t, reply)
        \/ \E reply \in GenReplies : GenReturn(t, reply)
        \/ Wake(t)
        \/ Release(t)

SpecBackoff == InitBackoff /\ [][NextBackoff]_vars

\* C24: the k-th wait of a generateWithRetry call lasts initialDelay * 2^(k-1); a call
\* has waited once per failed attempt before the current one, so it has not waited
\* after the attempt that succeeded, and a call that failed for good has waited
\* maxRetries - 1 times: not after its last attempt
C24_DelayDoubles ==
    \A t \in Callers :
        LET r == task[t]
        IN  r.pc # "idle" =>
                /\ \A k \in DOMAIN r.waits : r.waits[k] = BackoffDelay(t) * 2^(k - 1)
                /\ r.pc = "backoff" => (Len(r.waits) = r.attempt /\ r.attempt < r.maxRetries)
                /\ r.pc # "backoff" => Len(r.waits) = r.attempt - 1
                /\ (r.pc = "done" /\ r.outcome.status = "ok") => Len(r.waits) = r.okAt - 1
                /\ (r.pc = "done" /\ r.outcome.status = "error" /\ r.maxRetries > 0) =>
                        Len(r.waits) = r.maxRetries - 1

\* a call of three attempts is at its third attempt after waits of 10 and 20 ms
C24_Witness ==
    /\ task["c1"].maxRetries = 3
    /\ task["c1"].pc = "done"
    /\ task["c1"].outcome.status = "error"
    /\ task["c1"].waits = <<10, 20>>

----------------------------------------------------------------------------
(* The upload directory (fileUploadService.ts, lines 50-126).  A fileId is a
   sequence of characters, a file name is the fileId followed by the extension *)

\* characters of an identifier
IdChars == {"a", "b"}

\* length of the identifiers uuidv4() makes
IdLen == 2

\* uploads of one run
MaxUploads == 3

\* strings of at most n characters
RECURSIVE Strings(_)
Strings(n) ==
    IF n = 0 THEN {<<>>} ELSE Strings(n - 1) \cup {Append(s, c) : s \in Strings(n - 1), c \in IdChars}

\* what uuidv4() can return
Uuids == {s \in Strings(IdLen) : Len(s) = IdLen}

\* path.extname(file.originalname) of a validated upload
FileExtension == <<".pdf">>

\* line 75
FileNameOf(fileId) == fileId \o FileExtension

\* String.prototype.startsWith
StartsWith(name, prefix) ==
    /\ Len(prefix) <= Len(name)
    /\ SubSeq(name, 1, Len(prefix)) = prefix

\* line 100: the names files.find can return, in whatever order readdir listed them
MatchingFiles(files, fileId) == {name \in files : StartsWith(name, fileId)}

\* the fileIds of the uploads whose file is in the directory
StoredIds(files) == {fileId \in Uuids : FileNameOf(fileId) \in files}

\* lines 50-80: validation, then the identifier and the write
UploadResume(valid) ==
    /\ store.pc = "idle"
    /\ Cardinality(store.made) < MaxUploads
    /\ IF valid
       THEN \E fileId \in Uuids \ store.made :
                store' = [store EXCEPT !.pc = "write", !.op = "upload", !.id = fileId,
                                       !.made = @ \cup {fileId}, !.before = store.files,
                                       !.found = <<>>, !.result = "none"]
       ELSE store' = [store EXCEPT !.pc = "done", !.op = "upload", !.id = <<>>,
                                   !.before = store.files, !.found = <<>>,
                                   !.result = "rejected"]
    /\ UNCHANGED exceptStore

\* lines 78-94: fs.writeFile completes
WriteReturns(ok) ==
    /\ store.pc = "write"
    /\ store' = IF ok
                THEN [store EXCEPT !.pc = "done", !.files = @ \cup {FileNameOf(store.id)},
                                   !.result = "uploaded"]
                ELSE [store EXCEPT !.pc = "done", !.result = "failed"]
    /\ UNCHANGED exceptStore

\* lines 97-99 (and 115 for deleteFile): the call up to fs.readdir
Lookup(op, fileId) ==
    /\ store.pc = "idle"
    /\ store' = [store EXCEPT !.pc = "readdir", !.op = op, !.id = fileId,
                              !.before = store.files, !.found = <<>>, !.result = "none"]
    /\ UNCHANGED exceptStore

getFilePath(fileId) == Lookup("get", fileId)

deleteFile(fileId) == Lookup("delete", fileId)

\* lines 99-110, 115-125: fs.readdir completes
ReaddirReturns(ok) ==
    /\ store.pc = "readdir"
    /\ LET matching == MatchingFiles(store.files, store.id)
           none == IF store.op = "get" THEN "null" ELSE "false"
       IN  IF ~ok \/ matching = {}
           THEN store' = [store EXCEPT !.pc = "done", !.result = none]
           ELSE \E name \in matching :
                    store' = IF store.op = "get"
                             THEN [store EXCEPT !.pc = "done", !.found = name,
                                                !.result = "path"]
                             ELSE [store EXCEPT !.pc = "unlink", !.found = name]
    /\ UNCHANGED exceptStore

\* lines 117-124: fs.unlink completes
UnlinkReturns(ok) ==
    /\ store.pc = "unlink"
    /\ store' = IF ok
                THEN [store EXCEPT !.pc = "done", !.files = @ \ {store.found},
                                   !.result = "true"]
                ELSE [store EXCEPT !.pc = "done", !.result = "false"]
    /\ UNCHANGED exceptStore

\* the caller has the result and makes its next call
NextCall ==
    /\ store.pc = "done"
    /\ store' = [store EXCEPT !.pc = "idle"]
    /\ UNCHANGED exceptStore

InitUpload ==
    /\ isConnected = FALSE
    /\ availableModels = {}
    /\ task = [t \in Callers |-> IdleTask]
    /\ decoder = IdleDecoder
    /\ seniority = IdleSeniority
    /\ orch = IdleOrch
    /\ runtime = NoRuntime
    /\ IdleOthers

NextUpload ==
    \/ \E valid \in BOOLEAN : UploadResume(valid)
    \/ \E ok \in BOOLEAN : WriteReturns(ok)
    \/ \E fileId \in Strings(IdLen) : getFilePath(fileId)
    \/ \E fileId \in Strings(IdLen) : deleteFile(fileId)
    \/ \E ok \in BOOLEAN : ReaddirReturns(ok)
    \/ \E ok \in BOOLEAN : UnlinkReturns(ok)
    \/ NextCall

SpecUpload == InitUpload /\ [][NextUpload]_vars

\* C25: a getFilePath or deleteFile call for an id that was not the fileId of a stored
\* upload when the call was made returns null (false) and leaves the directory as it
\* was, and a deleteFile for a stored fileId removes no other file than that upload's
C25_OnlyStoredIds ==
    (store.pc = "done" /\ store.op \in {"get", "delete"}) =>
        IF store.id \in StoredIds(store.before)
        THEN store.before \ store.files \subseteq {FileNameOf(store.id)}
        ELSE /\ store.result = (IF store.op = "get" THEN "null" ELSE "false")
             /\ store.files = store.before

----------------------------------------------------------------------------
(* Termination: one request at a time to analyzeResume, to the question generators
   or to generateRoadmap, every request to the runtime and every timer completing *)

\* the answers a structured call of the question generators or of the roadmap settles
\* with: a failure, or a list of one entry
ShortReplies(S) == {Rejected} \cup {Decoded(Arr(<<x>>)) : x \in S}

\* the runtime is up and has the model, the gateway has checked the connection
InitTermination ==
    /\ InitAnalyze
    /\ runtime.up
    /\ runtime.installed # {}
    /\ isConnected

\* the answers to POST /api/generate: the well-formed text or a server error
TerminationReplies(t) ==
    IF t \in Branches THEN GoodReplies(t) \cup {Rejection("500")}
    ELSE IF t = "seniority" THEN {TextReply(<<"t">>, "Senior"), Rejection("500")}
    ELSE {TextReply(<<"t">>, a) : a \in SummaryAnswers} \cup {Rejection("500")}

\* the awaits of analyzeResume (no call checks the connection or pulls the model)
AnalyzeSettles ==
    \E t \in AnalysisTasks :
        \/ \E reply \in GenChoices(t, runtime) \cap TerminationReplies(t) :
                AnalysisGenReturn(t, reply)
        \/ AnalysisWake(t)

\* the awaits of the question generators
QuestionsSettle ==
    \/ \E i \in DOMAIN qgen.categories, reply \in ShortReplies(RawQuestions) :
            CategoryReturns(i, reply)
    \/ \E reply \in ShortReplies(RawQuestions) : GeneralReturns(reply)
    \/ \E reply \in ShortReplies(RawQuestions) : BehavioralReturns(reply)
    \/ \E reply \in ShortReplies(RawQuestions) : GeneralBehavioralReturns(reply)

\* the awaits of generateRoadmap
RoadmapSettles ==
    \/ \E reply \in RoleReplies : TargetRoleReturns(reply)
    \/ \E reply \in ShortReplies(RoadGaps) : SkillGapsReturn(reply)
    \/ \E reply \in ShortReplies(RoadResources) : ResourcesReturn(reply)
    \/ \E reply \in ShortReplies(RoadSteps) : StepsReturn(reply)

\* no request is being served
Quiet == orch.pc = "idle" /\ qgen.pc = "idle" /\ road.pc = "idle"

NextTermination ==
    \/ Quiet /\ analyzeResume
    \/ AnalyzeSettles
    \/ Quiet /\ \E skills \in QuestionSkillSets : GenerateTechnical(skills, MaxQuestions, "Mixed")
    \/ Quiet /\ \E experience \in QuestionExperiences : GenerateBehavioral(experience, MaxQuestions)
    \/ QuestionsSettle
    \/ Quiet /\ \E level \in RoadLevels, skillsOk \in BOOLEAN : generateRoadmap(level, skillsOk)
    \/ RoadmapSettles

\* a request to the runtime returns or fails, a timer fires
Settles == AnalyzeSettles \/ QuestionsSettle \/ RoadmapSettles

SpecTermination == InitTermination /\ [][NextTermination]_vars /\ WF_vars(Settles)

\* a request is being served
Serving == orch.pc \notin {"idle", "done"} \/ qgen.pc \notin {"idle", "done"}
                \/ road.pc \notin {"idle", "done"}

\* the request is over
Served == orch.pc = "done" \/ qgen.pc = "done" \/ road.pc = "done"

\* the model calls of the request being served are within their bounds: a call makes
\* at most maxRetries attempts, a question request makes one call per category or one
\* call and one fallback call, a roadmap request calls each stage at most once
BoundedCalls ==
    /\ \A t \in DOMAIN task : task[t].genCalls <= task[t].maxRetries
    /\ qgen.calls <= Max({Len(qgen.categories), 2})
    /\ Len(road.issued) <= Len(Stages)
    /\ \A i, j \in DOMAIN road.issued : i < j => StageIndex(road.issued[i]) < StageIndex(road.issued[j])

\* C30: when every request to the runtime returns or fails and every timer fires, a
\* request to analyzeResume, to the question generators or to generateRoadmap is
\* eventually over, and at every moment it has made a bounded number of model calls
C30_EventuallyCompletes ==
    /\ []BoundedCalls
    /\ Serving ~> Served

\* analyzeResume is over after an extraction call used all its attempts
C30_Witness ==
    /\ orch.pc = "done"
    /\ \E t \in Branches :
            /\ task[t].genCalls = DefaultMaxRetries
            /\ task[t].outcome.status = "error"

============================================================================
